---- MODULE Spec2Model ----
(***************************************************************************)
(* A model of the FIRRTL instance graph, its instance path cache, the      *)
(* allUnder dominance check and the LowerAnnotations pass (annotation      *)
(* worklist and wiring-problem resolver).                                  *)
(*                                                                         *)
(* Modules are numbered in circuit order; an instance record names the     *)
(* module whose body holds the instance (parent), the module it            *)
(* instantiates (target) and the InstanceOp currently bound to it (inst).  *)
(* An InstanceOp is a pair <<record, generation>>: cloning an instance     *)
(* yields a fresh operation, the next generation of the same record.       *)
(***************************************************************************)
EXTENDS Naturals, Integers, Sequences, FiniteSets, TLC

\* ------------------------------------------------------------------ bounds
NumModules == 4
MaxRecords == 3
\* The path-cache specification: modules of its designs, and the number of
\* replaceInstance calls its client makes.
CacheModules == 3
MaxReplacements == 2
\* The allUnder specification: the length of the list of instance records.
MaxNodes == 2

\* The circuit's main module: InstanceGraph::topLevelNode.
TopLevelNode == 1

Modules == 1..NumModules

\* Instantiation edges of an acyclic design whose modules are numbered so
\* that a module is declared before the modules it instantiates.
Edges == {e \in Modules \X Modules : e[1] < e[2]}

EdgeLeq(a, b) == a[1] < b[1] \/ (a[1] = b[1] /\ a[2] <= b[2])

\* The instance records of a circuit in the order the graph's constructor
\* meets them: module by module in circuit order, within a body one after
\* the other.
EdgeLists ==
  UNION {{s \in [1..n -> Edges] : \A i \in 1..(n - 1) : EdgeLeq(s[i], s[i + 1])}
         : n \in 0..MaxRecords}

GraphOf(s) ==
  [i \in 1..Len(s) |-> [parent |-> s[i][1], target |-> s[i][2], inst |-> <<i, 0>>]]

Graphs == {GraphOf(s) : s \in EdgeLists}

\* The designs that use only the first n modules.
GraphsOver(n) ==
  {g \in Graphs : \A i \in 1..Len(g) : g[i].target <= n}

\* ------------------------------------------------------------------ state
VARIABLES
  instanceGraph,        \* the instance records (InstanceGraph)
  absolutePathsCache,   \* InstancePathCache::absolutePathsCache
  lastCall,             \* the last InstancePathCache operation and its result
  returned,             \* per module, the paths returned since the last mutation
  numReplaced,          \* replaceInstance calls made by the client
  auNodes, auTop, auSeen, auWorklist, auResult, auPc, auPushed,
  \* the wiring-problem resolver of LowerAnnotationsPass::runOnOperation
  assertsEnabled,       \* whether the build keeps assert() (no NDEBUG)
  wiringProblems,       \* state.wiringProblems
  pc,                   \* where runOnOperation stands
  index,                \* wiring problems whose grouping iteration was entered
  moduleModifications,  \* DenseMap<FModuleLike, ModuleModifications>
  lcaOf,                \* per grouped problem: lca, sources, sinks after the LCA loop
  ports,                \* per module, its port list
  numResults,           \* per instance record, the results of its InstanceOp
  connects,             \* per module, the StrictConnectOps the resolver created
  order,                \* the modules in the order llvm::post_order yields them
  pos,                  \* how many of them the rewrite loop has taken
  cur,                  \* the module being rewritten and its uses still to replace
  \* the annotation worklist of LowerAnnotationsPass
  ignoreUnhandledAnno,  \* LowerAnnotationsPass::ignoreUnhandledAnno
  ignoreClasslessAnno,  \* LowerAnnotationsPass::ignoreClasslessAnno
  rawAnnotations,       \* the circuit's "rawAnnotations" attribute
  annotations,          \* runOnOperation's local copy of it
  worklistAttrs,        \* LowerAnnotationsPass::worklistAttrs
  numFailures,          \* runOnOperation's numFailures
  numAdded,             \* runOnOperation's numAdded
  numUnhandled,         \* the pass statistic numUnhandled
  applyState,           \* what appliers changed: diagnostics, annotated targets, anchors
  processed,            \* the annotations applyAnnotation was called with, in order
  statistics,           \* numRawAnnotations, numAddedAnnos, numAnnos, numReusedHierPathOps
  passFailed,           \* whether signalPassFailure was called
  annoPc                \* where the worklist loop stands

cacheVars == <<absolutePathsCache, lastCall, returned, numReplaced>>
auVars == <<auNodes, auTop, auSeen, auWorklist, auResult, auPc, auPushed>>
wiringVars == <<assertsEnabled, wiringProblems, pc, index, moduleModifications,
                lcaOf, ports, numResults, connects, order, pos, cur>>
annoVars == <<ignoreUnhandledAnno, ignoreClasslessAnno, rawAnnotations, annotations,
              worklistAttrs, numFailures, numAdded, numUnhandled, applyState,
              processed, statistics, passFailed, annoPc>>
vars == <<instanceGraph, cacheVars, auVars, wiringVars, annoVars>>

\* ------------------------------------------------------- instance graph
\* InstanceGraphNode::uses(): the records that instantiate module m.
RECURSIVE SelectSeq2(_, _, _)
SelectSeq2(s, i, keep) ==
  IF i > Len(s) THEN <<>>
  ELSE (IF keep[i] THEN <<s[i]>> ELSE <<>>) \o SelectSeq2(s, i + 1, keep)

uses(g, m) == SelectSeq2(g, 1, [i \in 1..Len(g) |-> g[i].target = m])

\* The same use list, as the numbers of the records.
useRecords(g, m) ==
  SelectSeq2([i \in 1..Len(g) |-> i], 1, [i \in 1..Len(g) |-> g[i].target = m])

\* InstanceGraphNode::noUses().
noUses(g, m) == \A i \in 1..Len(g) : g[i].target # m

\* The live InstanceOps of the design.
LiveInsts(g) == {g[i].inst : i \in 1..Len(g)}

\* InstanceGraphBase::replaceInstance: the record bound to oldOp is rebound
\* to newOp; the record stays in every use list it was in.
GraphReplaceInstance(g, oldOp, newOp) ==
  [i \in 1..Len(g) |-> IF g[i].inst = oldOp THEN [g[i] EXCEPT !.inst = newOp] ELSE g[i]]

\* InstanceOp::cloneAndInsertPorts yields a new operation.
CloneOf(op) == <<op[1], op[2] + 1>>

\* ---------------------------------------------------- instance path cache
appendInstanceFront(path, inst) == <<inst>> \o path

\* InstancePathCache::appendInstance.
appendInstance(path, inst) == Append(path, inst)

cachedNever(cache, op) == FALSE

\* absolutePathsCache.find(op) != absolutePathsCache.end()
cached(cache, op) == op \in DOMAIN cache

\* InstancePathCache::getAbsolutePaths(op) on graph g with cache contents
\* `cache`: the paths returned, the cache afterwards, the number of
\* allocator.Allocate calls made and the number of use records traversed.
RECURSIVE getAbsolutePaths(_, _, _), extendOverUses(_, _, _, _)
getAbsolutePaths(g, cache, op) ==
  IF op = TopLevelNode
  THEN [paths |-> << <<>> >>, cache |-> cache, allocs |-> 0, traversed |-> 0]
  ELSE IF cached(cache, op)
  THEN [paths |-> cache[op], cache |-> cache, allocs |-> 0, traversed |-> 0]
  ELSE LET r == extendOverUses(g, uses(g, op), 1,
                  [ext |-> <<>>, cache |-> cache, allocs |-> 0, traversed |-> 0])
           n == IF r.ext # <<>> THEN 1 ELSE 0
       IN [paths |-> r.ext, cache |-> (op :> r.ext) @@ r.cache,
           allocs |-> r.allocs + n, traversed |-> r.traversed]

extendOverUses(g, us, i, acc) ==
  IF i > Len(us) THEN acc
  ELSE LET inst == us[i]
           sub == getAbsolutePaths(g, acc.cache, inst.parent)
           ext == [k \in 1..Len(sub.paths) |-> appendInstance(sub.paths[k], inst.inst)]
       IN extendOverUses(g, us, i + 1,
            [ext |-> acc.ext \o ext, cache |-> sub.cache,
             allocs |-> acc.allocs + sub.allocs + Len(sub.paths),
             traversed |-> acc.traversed + sub.traversed + 1])

is_contained(path, op) == \E k \in 1..Len(path) : path[k] = op

\* llvm::find(path, oldOp): the first position holding oldOp, 0 for end().
find(path, op) ==
  IF is_contained(path, op)
  THEN CHOOSE k \in 1..Len(path) : path[k] = op /\ \A j \in 1..(k - 1) : path[j] # op
  ELSE 0

instanceExistsFirstOnly(paths, oldOp) ==
  paths # <<>> /\ is_contained(paths[1], oldOp)

\* The lambda instanceExists of replaceInstance.
instanceExists(paths, oldOp) ==
  \E k \in 1..Len(paths) : is_contained(paths[k], oldOp)

\* The body of replaceInstance's inner loop: the updated copy of one path.
updatedPath(path, oldOp, newOp) ==
  IF find(path, oldOp) = 0 THEN path
  ELSE [path EXCEPT ![find(path, oldOp)] = newOp]

\* The cache half of InstancePathCache::replaceInstance.
replaceInCache(cache, oldOp, newOp) ==
  [m \in DOMAIN cache |->
     IF ~instanceExists(cache[m], oldOp) THEN cache[m]
     ELSE [k \in 1..Len(cache[m]) |-> updatedPath(cache[m][k], oldOp, newOp)]]

replaceInstanceGraphOnly(g, cache, oldOp, newOp) ==
  [graph |-> GraphReplaceInstance(g, oldOp, newOp), cache |-> cache]

\* InstancePathCache::replaceInstance.
replaceInstance(g, cache, oldOp, newOp) ==
  [graph |-> GraphReplaceInstance(g, oldOp, newOp),
   cache |-> replaceInCache(cache, oldOp, newOp)]

NoCall == [op |-> "none"]

\* ------------------------------------------- specification: the path cache
CacheIdle ==
  /\ absolutePathsCache = <<>>
  /\ lastCall = NoCall
  /\ returned = <<>>
  /\ numReplaced = 0

AllUnderIdle ==
  /\ auNodes = <<>>
  /\ auTop = TopLevelNode
  /\ auSeen = {}
  /\ auWorklist = <<>>
  /\ auResult = "none"
  /\ auPc = "idle"
  /\ auPushed = <<>>

NoModule == [module |-> 0, newPorts |-> <<>>, originalNumPorts |-> 0, usesLeft |-> <<>>]

WiringIdle ==
  /\ assertsEnabled = TRUE
  /\ wiringProblems = <<>>
  /\ pc = "idle"
  /\ index = 0
  /\ moduleModifications = <<>>
  /\ lcaOf = <<>>
  /\ ports = <<>>
  /\ numResults = <<>>
  /\ connects = <<>>
  /\ order = <<>>
  /\ pos = 0
  /\ cur = NoModule

\* An ApplyState no applier has touched.
EmptyState ==
  [diagnostics |-> <<>>, annotated |-> <<>>, instPathToNLAMap |-> {},
   hierPaths |-> <<>>, numReusedHierPaths |-> 0, wiringProblems |-> <<>>]

NoStatistics ==
  [numRawAnnotations |-> 0, numAddedAnnos |-> 0, numAnnos |-> 0,
   numReusedHierPathOps |-> 0]

\* A circuit without the "rawAnnotations" attribute.
NoRawAnnotations == [present |-> FALSE, value |-> <<>>]

AnnoIdle ==
  /\ ignoreUnhandledAnno = FALSE
  /\ ignoreClasslessAnno = FALSE
  /\ rawAnnotations = NoRawAnnotations
  /\ annotations = <<>>
  /\ worklistAttrs = <<>>
  /\ numFailures = 0
  /\ numAdded = 0
  /\ numUnhandled = 0
  /\ applyState = EmptyState
  /\ processed = <<>>
  /\ statistics = NoStatistics
  /\ passFailed = FALSE
  /\ annoPc = "idle"

InitCache ==
  /\ AnnoIdle
  /\ instanceGraph \in GraphsOver(CacheModules)
  /\ CacheIdle
  /\ AllUnderIdle
  /\ WiringIdle

\* A client calls getAbsolutePaths(m).
GetAbsolutePaths(m) ==
  LET r == getAbsolutePaths(instanceGraph, absolutePathsCache, m) IN
  /\ absolutePathsCache' = r.cache
  /\ lastCall' = [op |-> "get", module |-> m, paths |-> r.paths,
                  allocs |-> r.allocs, traversed |-> r.traversed,
                  before |-> IF m \in DOMAIN returned THEN <<returned[m]>> ELSE <<>>]
  /\ returned' = (m :> r.paths) @@ returned
  /\ UNCHANGED <<instanceGraph, numReplaced, auVars, annoVars, wiringVars>>

\* A client clones the live instance of record i and calls
\* replaceInstance(old, clone).
ReplaceInstance(i) ==
  LET oldOp == instanceGraph[i].inst
      newOp == CloneOf(oldOp) IN
  /\ numReplaced < MaxReplacements
  /\ numReplaced' = numReplaced + 1
  /\ instanceGraph' = replaceInstance(instanceGraph, absolutePathsCache, oldOp, newOp).graph
  /\ absolutePathsCache' = replaceInstance(instanceGraph, absolutePathsCache, oldOp, newOp).cache
  /\ lastCall' = [op |-> "replace", old |-> oldOp, new |-> newOp,
                  before |-> absolutePathsCache]
  /\ returned' = <<>>
  /\ UNCHANGED <<auVars, annoVars, wiringVars>>

NextCache ==
  \/ \E m \in 1..CacheModules : GetAbsolutePaths(m)
  \/ \E i \in 1..Len(instanceGraph) : ReplaceInstance(i)

SpecCache == InitCache /\ [][NextCache]_vars

\* -------------------------------------------------------------- allUnder
\* The first loop of allUnder: the parent module of every given record is
\* put on the worklist unless it was seen.
RECURSIVE seedWorklist(_, _, _, _)
seedWorklist(g, nodes, i, acc) ==
  IF i > Len(nodes) THEN acc
  ELSE LET mod == g[nodes[i]].parent IN
       seedWorklist(g, nodes, i + 1,
         IF mod \in acc.seen THEN acc
         ELSE [seen |-> acc.seen \cup {mod}, worklist |-> Append(acc.worklist, mod)])

RECURSIVE pushParentsSeenOrNot(_, _, _)
pushParentsSeenOrNot(us, i, acc) ==
  IF i > Len(us) THEN acc
  ELSE pushParentsSeenOrNot(us, i + 1,
         [seen |-> acc.seen \cup {us[i].parent},
          worklist |-> Append(acc.worklist, us[i].parent)])

\* The loop "walk upwards" of allUnder over the uses of the popped node.
RECURSIVE pushParents(_, _, _)
pushParents(us, i, acc) ==
  IF i > Len(us) THEN acc
  ELSE LET mod == us[i].parent IN
       pushParents(us, i + 1,
         IF mod \in acc.seen THEN acc
         ELSE [seen |-> acc.seen \cup {mod}, worklist |-> Append(acc.worklist, mod)])

reachedRootNever(g, node) == FALSE

\* "If reach top-level node we're not covered by 'top'": node->noUses().
reachedRoot(g, node) == noUses(g, node)

InitAllUnder ==
  /\ AnnoIdle
  /\ instanceGraph \in Graphs
  /\ CacheIdle
  /\ auNodes \in UNION {[1..n -> 1..Len(instanceGraph)] : n \in 0..MaxNodes}
  /\ auTop \in Modules
  /\ auSeen = {}
  /\ auWorklist = <<>>
  /\ auResult = "none"
  /\ auPc = "start"
  /\ auPushed = <<>>
  /\ WiringIdle

\* allUnder up to its while loop.
AllUnderSeed ==
  /\ auPc = "start"
  /\ LET r == seedWorklist(instanceGraph, auNodes, 1,
                [seen |-> {auTop}, worklist |-> <<>>]) IN
     /\ auSeen' = r.seen
     /\ auWorklist' = r.worklist
     /\ auPushed' = r.worklist
  /\ auPc' = "loop"
  /\ UNCHANGED <<instanceGraph, cacheVars, wiringVars, annoVars, auNodes, auTop, auResult>>

\* One iteration of the while loop: it fails its assertion, returns false,
\* or walks upwards.
AllUnderStep ==
  /\ auPc = "loop"
  /\ auWorklist # <<>>
  /\ LET node == auWorklist[Len(auWorklist)]
         rest == SubSeq(auWorklist, 1, Len(auWorklist) - 1)
         r == pushParents(uses(instanceGraph, node), 1,
                [seen |-> auSeen, worklist |-> rest]) IN
     IF node = auTop
     THEN /\ auPc' = "assert"
          /\ auWorklist' = rest
          /\ UNCHANGED <<auSeen, auResult, auPushed>>
     ELSE IF reachedRoot(instanceGraph, node)
     THEN /\ auPc' = "done"
          /\ auResult' = "false"
          /\ auWorklist' = rest
          /\ UNCHANGED <<auSeen, auPushed>>
     ELSE /\ auSeen' = r.seen
          /\ auWorklist' = r.worklist
          /\ auPushed' = auPushed \o SubSeq(r.worklist, Len(rest) + 1, Len(r.worklist))
          /\ UNCHANGED <<auPc, auResult>>
  /\ UNCHANGED <<instanceGraph, cacheVars, wiringVars, annoVars, auNodes, auTop>>

\* The worklist is empty: allUnder returns true.
AllUnderReturn ==
  /\ auPc = "loop"
  /\ auWorklist = <<>>
  /\ auPc' = "done"
  /\ auResult' = "true"
  /\ UNCHANGED <<instanceGraph, cacheVars, wiringVars, annoVars, auNodes, auTop, auSeen, auWorklist, auPushed>>

NextAllUnder ==
  \/ AllUnderSeed
  \/ AllUnderStep
  \/ AllUnderReturn

SpecAllUnder == InitAllUnder /\ [][NextAllUnder]_vars

\* allUnder is one thread of control: it takes its next step as long as it
\* has one.
SpecAllUnderLive == InitAllUnder /\ [][NextAllUnder]_vars /\ WF_vars(NextAllUnder)

\* ------------------------------------------------ wiring-problem resolver
\* The wiring problems of a run: none, or one between any two modules.
Problems == [source : Modules, sink : Modules, isRefType : BOOLEAN]
ProblemLists == {<<>>} \cup {<<p>> : p \in Problems}

\* mlir::Values, as <<kind, a, b, c>>: a problem's source and sink, a module's
\* block argument (port) k, result k of an InstanceOp; k counts from 0.
SourceValue(id) == <<"source", id, 0, 0>>
SinkValue(id) == <<"sink", id, 0, 0>>
Argument(m, k) == <<"arg", m, k, 0>>
Result(inst, k) == <<"result", inst[1], inst[2], k>>

\* The ports a module has before the pass.
InitialPorts(m) ==
  [k \in 1..(m % 2) |-> [direction |-> "in", isRef |-> FALSE, id |-> 0]]

\* A default-constructed ModuleModifications.
NoModifications == [portsToAdd |-> <<>>, connectionMap |-> <<>>, uturns |-> <<>>]

\* moduleModifications[m]: DenseMap::operator[] inserts a default entry.
at(mm, m) == IF m \in DOMAIN mm THEN mm ELSE (m :> NoModifications) @@ mm

setNoConnection(mm, m, id, v) == at(mm, m)

\* moduleModifications[m].connectionMap[id] = v
setConnection(mm, m, id, v) ==
  [at(mm, m) EXCEPT ![m].connectionMap = (id :> v) @@ @]

\* moduleModifications[m].portsToAdd.push_back({port, id})
addPort(mm, m, port) ==
  [at(mm, m) EXCEPT ![m].portsToAdd = Append(@, port)]

\* moduleModifications[m].uturns.push_back({v, id})
addUturn(mm, m, v, id) ==
  [at(mm, m) EXCEPT ![m].uturns = Append(@, <<v, id>>)]

\* sourcePaths[0] after assert(sourcePaths.size() == 1): the assertion aborts
\* a build that keeps it; without it, the first of several paths is taken,
\* and element 0 of an empty ArrayRef is read through a null pointer.
onlyPath(paths, asserts) ==
  IF Len(paths) = 1 THEN {"ok"}
  ELSE IF asserts THEN {"crashed"}
  ELSE IF Len(paths) = 0 THEN {"crashed", "corrupt"}
  ELSE {"ok"}

\* The LCA loop: while (!sources.empty() || sinks.empty()) { if (sources[0]
\* != sinks[0]) break; lca = sources[0].getReferencedModule(); drop both
\* fronts }.  Status "oob" says the loop read element 0 of an empty path.
RECURSIVE lcaLoop(_, _, _, _)
lcaLoop(g, lca, sources, sinks) ==
  IF ~(sources # <<>> \/ sinks = <<>>)
  THEN [status |-> "ok", lca |-> lca, sources |-> sources, sinks |-> sinks]
  ELSE IF sources = <<>> \/ sinks = <<>>
  THEN [status |-> "oob", lca |-> lca, sources |-> sources, sinks |-> sinks]
  ELSE IF sources[1] # sinks[1]
  THEN [status |-> "ok", lca |-> lca, sources |-> sources, sinks |-> sinks]
  ELSE lcaLoop(g, g[sources[1][1]].target, Tail(sources), Tail(sinks))

\* How the loop ends after a read past the end of a path: a build with
\* assertions aborts in ArrayRef::operator[]; otherwise the read yields
\* whatever lies there, which compares unequal (break) or does not.
loopExit(status, asserts) ==
  IF status = "ok" THEN {"ok"}
  ELSE IF asserts THEN {"crashed"}
  ELSE {"ok", "corrupt"}

planNoPorts(g, mm, chain, port) == mm

\* The two port-planning loops: every module of the chain gets one port.
RECURSIVE planPorts(_, _, _, _)
planPorts(g, mm, chain, port) ==
  IF chain = <<>> THEN mm
  ELSE planPorts(g, addPort(mm, g[chain[1][1]].target, port), Tail(chain), port)

\* llvm::post_order from a node of the instance graph: a depth-first walk
\* over the instances of each body, a module yielded once, after the modules
\* it instantiates.
children(g, m) == SelectSeq2(g, 1, [i \in 1..Len(g) |-> g[i].parent = m])

RECURSIVE poVisit(_, _, _), poChildren(_, _, _, _)
poVisit(g, m, acc) ==
  IF m \in acc.visited THEN acc
  ELSE LET a == poChildren(g, children(g, m), 1,
                  [visited |-> acc.visited \cup {m}, out |-> acc.out])
       IN [visited |-> a.visited, out |-> Append(a.out, m)]

poChildren(g, cs, i, acc) ==
  IF i > Len(cs) THEN acc
  ELSE poChildren(g, cs, i + 1, poVisit(g, cs[i].target, acc))

post_order(g, m) == poVisit(g, m, [visited |-> {}, out |-> <<>>]).out

Reverse(s) == [k \in 1..Len(s) |-> s[Len(s) + 1 - k]]

rewriteOrderTopDown(g) == Reverse(post_order(g, TopLevelNode))

\* The modules the rewrite loop iterates over.
rewriteOrder(g) == post_order(g, TopLevelNode)

\* Whether a value is of a RefType, given the port lists.
isRefValue(g, pts, v) ==
  IF v[1] = "arg" THEN pts[v[2]][v[3] + 1].isRef
  ELSE IF v[1] = "result" THEN pts[g[v[2]].target][v[4] + 1].isRef
  ELSE FALSE

wireUpWithoutSwap(g, pts, mods, fmodule, originalNumPorts, k) ==
  LET port == mods.portsToAdd[k]
      src == mods.connectionMap[port.id]
      dest == Argument(fmodule, originalNumPorts + k - 1)
      cast == IF isRefValue(g, pts, dest) /\ ~isRefValue(g, pts, src) THEN "send"
              ELSE IF ~isRefValue(g, pts, dest) /\ isRefValue(g, pts, src) THEN "resolve"
              ELSE "none"
  IN [dest |-> dest, src |-> src, cast |-> cast, via |-> "port", id |-> port.id]

\* The wire-up of the k-th new port of fmodule.
wireUp(g, pts, mods, fmodule, originalNumPorts, k) ==
  LET port == mods.portsToAdd[k]
      value == mods.connectionMap[port.id]
      arg == Argument(fmodule, originalNumPorts + k - 1)
      dest == IF port.direction = "in" THEN value ELSE arg
      src == IF port.direction = "in" THEN arg ELSE value
      cast == IF isRefValue(g, pts, dest) /\ ~isRefValue(g, pts, src) THEN "send"
              ELSE IF ~isRefValue(g, pts, dest) /\ isRefValue(g, pts, src) THEN "resolve"
              ELSE "none"
  IN [dest |-> dest, src |-> src, cast |-> cast, via |-> "port", id |-> port.id]

\* The connect created for one entry of uturns.
uturnConnect(mods, uturn) ==
  [dest |-> uturn[1], src |-> mods.connectionMap[uturn[2]], cast |-> "none",
   via |-> "uturn", id |-> uturn[2]]

replaceNoUses(cs, oldOp, newOp) == cs

\* useInst->replaceAllUsesWith(clonedInst.getResults().drop_back(n)).
replaceAllUsesWith(cs, oldOp, newOp) ==
  LET sub(v) == IF v[1] = "result" /\ v[2] = oldOp[1] /\ v[3] = oldOp[2]
                THEN Result(newOp, v[4]) ELSE v
  IN [m \in DOMAIN cs |->
        [k \in 1..Len(cs[m]) |->
           [cs[m][k] EXCEPT !.dest = sub(@), !.src = sub(@)]]]

RECURSIVE recordAlwaysInMap(_, _, _, _, _, _)
recordAlwaysInMap(mm, enclosing, newPorts, k, clonedInst, originalNumPorts) ==
  IF k > Len(newPorts) THEN mm
  ELSE recordAlwaysInMap(
         setConnection(mm, enclosing, newPorts[k].id,
                       Result(clonedInst, (k - 1) + originalNumPorts)),
         enclosing, newPorts, k + 1, clonedInst, originalNumPorts)

RECURSIVE recordFromResultZero(_, _, _, _, _, _)
recordFromResultZero(mm, enclosing, newPorts, k, clonedInst, originalNumPorts) ==
  IF k > Len(newPorts) THEN at(mm, enclosing)
  ELSE LET id == newPorts[k].id
           value == Result(clonedInst, k - 1)
           next == IF id \in DOMAIN at(mm, enclosing)[enclosing].connectionMap
                   THEN addUturn(mm, enclosing, value, id)
                   ELSE setConnection(mm, enclosing, id, value)
       IN recordFromResultZero(next, enclosing, newPorts, k + 1, clonedInst,
                               originalNumPorts)

\* The bookkeeping for the module where the cloned instance lives: each new
\* result becomes the module's connection for its problem, or a U-turn if
\* the module has one already.
RECURSIVE recordInEnclosing(_, _, _, _, _, _)
recordInEnclosing(mm, enclosing, newPorts, k, clonedInst, originalNumPorts) ==
  IF k > Len(newPorts) THEN at(mm, enclosing)
  ELSE LET id == newPorts[k].id
           value == Result(clonedInst, (k - 1) + originalNumPorts)
           next == IF id \in DOMAIN at(mm, enclosing)[enclosing].connectionMap
                   THEN addUturn(mm, enclosing, value, id)
                   ELSE setConnection(mm, enclosing, id, value)
       IN recordInEnclosing(next, enclosing, newPorts, k + 1, clonedInst,
                            originalNumPorts)

InitWiring ==
  /\ AnnoIdle
  /\ instanceGraph \in Graphs
  /\ CacheIdle
  /\ AllUnderIdle
  /\ assertsEnabled \in BOOLEAN
  /\ wiringProblems \in ProblemLists
  /\ pc = "group"
  /\ index = 0
  /\ moduleModifications = <<>>
  /\ lcaOf = <<>>
  /\ ports = [m \in Modules |-> InitialPorts(m)]
  /\ numResults = [r \in 1..Len(instanceGraph) |->
                     Len(InitialPorts(instanceGraph[r].target))]
  /\ connects = [m \in Modules |-> <<>>]
  /\ order = <<>>
  /\ pos = 0
  /\ cur = NoModule

\* One iteration of the loop over state.wiringProblems: pre-populate the
\* connection values, look the two paths up, find the LCA, plan the ports.
GroupProblem ==
  /\ pc = "group"
  /\ index < Len(wiringProblems)
  /\ index' = index + 1
  /\ LET id == index + 1
         problem == wiringProblems[id]
         mm1 == setConnection(
                  setConnection(moduleModifications, problem.source, id, SourceValue(id)),
                  problem.sink, id, SinkValue(id))
         src == getAbsolutePaths(instanceGraph, absolutePathsCache, problem.source)
         snk == getAbsolutePaths(instanceGraph, src.cache, problem.sink)
         walked == IF src.paths # <<>> /\ snk.paths # <<>>
                   THEN lcaLoop(instanceGraph, TopLevelNode, src.paths[1], snk.paths[1])
                   ELSE [status |-> "oob", lca |-> TopLevelNode, sources |-> <<>>, sinks |-> <<>>]
         tpe == problem.isRefType
         mm2 == planPorts(instanceGraph, mm1, walked.sources,
                          [direction |-> "out", isRef |-> tpe, id |-> id])
         mm3 == planPorts(instanceGraph, mm2, walked.sinks,
                          [direction |-> "in", isRef |-> tpe, id |-> id])
     IN \E s1 \in onlyPath(src.paths, assertsEnabled),
           s2 \in onlyPath(snk.paths, assertsEnabled),
           s3 \in loopExit(walked.status, assertsEnabled) :
          LET status == IF s1 # "ok" THEN s1 ELSE IF s2 # "ok" THEN s2 ELSE s3 IN
          IF status = "ok"
          THEN /\ moduleModifications' = mm3
               /\ absolutePathsCache' = snk.cache
               /\ lcaOf' = (id :> [lca |-> walked.lca, sources |-> walked.sources,
                                   sinks |-> walked.sinks]) @@ lcaOf
               /\ UNCHANGED pc
          ELSE /\ pc' = status
               /\ UNCHANGED <<moduleModifications, absolutePathsCache, lcaOf>>
  /\ UNCHANGED <<instanceGraph, lastCall, returned, numReplaced, auVars, annoVars,
                 assertsEnabled, wiringProblems, ports, numResults, connects,
                 order, pos, cur>>

\* The rewrite loop starts: llvm::post_order(getTopLevelNode()).
StartRewrite ==
  /\ pc = "group"
  /\ index = Len(wiringProblems)
  /\ pc' = "rewrite"
  /\ order' = rewriteOrder(instanceGraph)
  /\ UNCHANGED <<instanceGraph, cacheVars, auVars, annoVars, assertsEnabled, wiringProblems,
                 index, moduleModifications, lcaOf, ports, numResults, connects,
                 pos, cur>>

insertPortsInFront(existing, newPorts) == newPorts \o existing

\* fmodule.insertPorts(newPorts), every new port given the index
\* fmodule.getNumPorts(): the new ports go behind the existing ones.
insertPorts(existing, newPorts) == existing \o newPorts

\* The rewrite loop takes the next module: it skips a module without
\* modifications; otherwise it inserts the new ports, wires each up and
\* creates the U-turn connects.
VisitModule ==
  /\ pc = "rewrite"
  /\ cur.usesLeft = <<>>
  /\ pos < Len(order)
  /\ pos' = pos + 1
  /\ LET fmodule == order[pos + 1] IN
     IF fmodule \notin DOMAIN moduleModifications
     THEN /\ cur' = NoModule
          /\ UNCHANGED <<pc, ports, connects>>
     ELSE LET mods == moduleModifications[fmodule]
              newPorts == mods.portsToAdd
              originalNumPorts == Len(ports[fmodule])
              pts == [ports EXCEPT ![fmodule] = insertPorts(@, newPorts)]
              wired == [k \in 1..Len(newPorts) |->
                          wireUp(instanceGraph, pts, mods, fmodule, originalNumPorts, k)]
              turned == [k \in 1..Len(mods.uturns) |-> uturnConnect(mods, mods.uturns[k])]
          IN IF \E k \in 1..Len(newPorts) : newPorts[k].id \notin DOMAIN mods.connectionMap
             THEN \* assert(src && "need to have an actual value"), or the
                  \* use of a null Value
                  /\ pc' \in (IF assertsEnabled THEN {"crashed"} ELSE {"crashed", "corrupt"})
                  /\ UNCHANGED <<ports, connects, cur>>
             ELSE /\ ports' = pts
                  /\ connects' = [connects EXCEPT ![fmodule] = @ \o wired \o turned]
                  /\ cur' = [module |-> fmodule, newPorts |-> newPorts,
                             originalNumPorts |-> originalNumPorts,
                             usesLeft |-> useRecords(instanceGraph, fmodule)]
                  /\ UNCHANGED pc
  /\ UNCHANGED <<instanceGraph, cacheVars, auVars, annoVars, assertsEnabled, wiringProblems,
                 index, moduleModifications, lcaOf, numResults, order>>

\* One iteration of the loop over the uses of the rewritten module: the
\* instance is cloned with the new ports, replaced in graph and cache, its
\* uses are redirected, it is erased, and the new results are recorded for
\* the module that holds it.
ReplaceUse ==
  /\ pc = "rewrite"
  /\ cur.usesLeft # <<>>
  /\ LET r == Head(cur.usesLeft)
         useInst == instanceGraph[r].inst
         enclosingModule == instanceGraph[r].parent
         clonedInst == CloneOf(useInst)
         rep == replaceInstance(instanceGraph, absolutePathsCache, useInst, clonedInst)
     IN /\ instanceGraph' = rep.graph
        /\ absolutePathsCache' = rep.cache
        /\ numResults' = [numResults EXCEPT ![r] = @ + Len(cur.newPorts)]
        /\ connects' = replaceAllUsesWith(connects, useInst, clonedInst)
        /\ moduleModifications' =
             recordInEnclosing(moduleModifications, enclosingModule, cur.newPorts, 1,
                               clonedInst, cur.originalNumPorts)
        /\ cur' = [cur EXCEPT !.usesLeft = Tail(@)]
  /\ UNCHANGED <<lastCall, returned, numReplaced, auVars, annoVars, assertsEnabled,
                 wiringProblems, pc, index, lcaOf, ports, order, pos>>

\* The rewrite loop is over: runOnOperation returns.
FinishRewrite ==
  /\ pc = "rewrite"
  /\ cur.usesLeft = <<>>
  /\ pos = Len(order)
  /\ pc' = "done"
  /\ UNCHANGED <<instanceGraph, cacheVars, auVars, annoVars, assertsEnabled, wiringProblems,
                 index, moduleModifications, lcaOf, ports, numResults, connects,
                 order, pos, cur>>

NextWiring ==
  \/ GroupProblem
  \/ StartRewrite
  \/ VisitModule
  \/ ReplaceUse
  \/ FinishRewrite

SpecWiring == InitWiring /\ [][NextWiring]_vars

\* ------------------------------------------- annotation dispatch and driver
\* The length of the list of raw annotations.
MaxAnnos == 3

\* A DictionaryAttr is a function from attribute names to values; a lookup of
\* a name it does not hold yields NoAttr.
NoAttr == "<no attribute>"

getNamed(anno, name) == IF name \in DOMAIN anno THEN anno[name] ELSE NoAttr

\* The design the sample targets refer to: Top holds wire w (a bundle with
\* field f), port p and instance a of A; A holds wires w, v and instance b of
\* B; B holds wire w.
DesignInstances == {<<"Top", "a", "A">>, <<"A", "b", "B">>}

DesignEntities ==
  {<<"Top", "w", "WireOp">>, <<"Top", "p", "port">>, <<"A", "w", "WireOp">>,
   <<"A", "v", "WireOp">>, <<"B", "w", "WireOp">>}

DesignModules == {"Top", "A", "B"}

NoTokens == [ok |-> FALSE]

\* The hierarchical-path grammar: circuit, instance chain, module, name and
\* field of a target string, or no tokens if the string is malformed.
tokenizePath(path) ==
  CASE path = "~Top|Top>w" ->
         [ok |-> TRUE, instances |-> <<>>, module |-> "Top", name |-> "w", field |-> 0]
    [] path = "~Top|Top>w.f" ->
         [ok |-> TRUE, instances |-> <<>>, module |-> "Top", name |-> "w", field |-> 1]
    [] path = "~Top|Top>p" ->
         [ok |-> TRUE, instances |-> <<>>, module |-> "Top", name |-> "p", field |-> 0]
    [] path = "~Top|A" ->
         [ok |-> TRUE, instances |-> <<>>, module |-> "A", name |-> "", field |-> 0]
    [] path = "~Top|Top/a:A" ->
         [ok |-> TRUE, instances |-> <<<<"Top", "a">>>>, module |-> "A", name |-> "",
          field |-> 0]
    [] path = "~Top|Top/a:A>w" ->
         [ok |-> TRUE, instances |-> <<<<"Top", "a">>>>, module |-> "A", name |-> "w",
          field |-> 0]
    [] path = "~Top|Top/a:A>v" ->
         [ok |-> TRUE, instances |-> <<<<"Top", "a">>>>, module |-> "A", name |-> "v",
          field |-> 0]
    [] path = "~Top|Top/a:A/b:B>w" ->
         [ok |-> TRUE, instances |-> <<<<"Top", "a">>, <<"A", "b">>>>, module |-> "B",
          name |-> "w", field |-> 0]
    [] path = "~Top|Missing>w" ->
         [ok |-> TRUE, instances |-> <<>>, module |-> "Missing", name |-> "w", field |-> 0]
    [] OTHER -> NoTokens

NoValue == [ok |-> FALSE]

\* AnnoPathValue(state.circuit): the circuit itself, with no instances.
CircuitValue ==
  [ok |-> TRUE, instances |-> <<>>,
   ref |-> [kind |-> "op", op |-> "CircuitOp", module |-> "", name |-> ""],
   fieldIdx |-> 0]

\* The entity a tokenized path names in the design, or nothing.
resolveEntities(tokens) ==
  LET instsOk ==
        \A i \in 1..Len(tokens.instances) :
          \E d \in DesignInstances :
            /\ d[1] = tokens.instances[i][1]
            /\ d[2] = tokens.instances[i][2]
            /\ d[3] = IF i = Len(tokens.instances) THEN tokens.module
                      ELSE tokens.instances[i + 1][1]
      kinds == {e[3] : e \in {d \in DesignEntities :
                                d[1] = tokens.module /\ d[2] = tokens.name}}
  IN  IF tokens.module \notin DesignModules \/ ~instsOk THEN NoValue
      ELSE IF tokens.name = "" THEN
        [ok |-> TRUE, instances |-> tokens.instances,
         ref |-> [kind |-> "op", op |-> "FModuleOp", module |-> tokens.module,
                  name |-> ""],
         fieldIdx |-> 0]
      ELSE IF kinds = {} THEN NoValue
      ELSE LET k == CHOOSE x \in kinds : TRUE
           IN  [ok |-> TRUE, instances |-> tokens.instances,
                ref |-> [kind |-> IF k = "port" THEN "port" ELSE "op",
                         op |-> IF k = "port" THEN "FModuleOp" ELSE k,
                         module |-> tokens.module, name |-> tokens.name],
                fieldIdx |-> tokens.field]

isLocal(target) == target.instances = <<>>

emitError(state, message, anno) ==
  [state EXCEPT !.diagnostics = Append(@, [message |-> message, anno |-> anno])]

\* SymbolTable::insert: the name "nla", made unique among the anchors.
nlaSymbol(state) ==
  IF state.hierPaths = <<>> THEN "nla"
  ELSE "nla_" \o ToString(Len(state.hierPaths) - 1)

\* The name path of a target: its instance sites, then its module.
namepath(target) == Append(target.instances, <<target.ref.module>>)

buildNLAAlwaysNew(target, state) ==
  LET sym == nlaSymbol(state)
  IN  [sym |-> sym,
       state |-> [state EXCEPT
         !.hierPaths = Append(@, [sym |-> sym, namepath |-> namepath(target)]),
         !.instPathToNLAMap = @ \cup {[key |-> namepath(target), sym |-> sym]}]]

buildNLA(target, state) ==
  LET instAttr == namepath(target)
      found == {e \in state.instPathToNLAMap : e.key = instAttr}
  IN  IF found # {}
        THEN [sym |-> (CHOOSE e \in found : TRUE).sym,
              state |-> [state EXCEPT !.numReusedHierPaths = @ + 1]]
        ELSE LET sym == nlaSymbol(state)
             IN  [sym |-> sym,
                  state |-> [state EXCEPT
                    !.hierPaths = Append(@, [sym |-> sym, namepath |-> instAttr]),
                    !.instPathToNLAMap = @ \cup {[key |-> instAttr, sym |-> sym]}]]

scatterNonLocalPath(target, state) == buildNLA(target, state)

noResolve(anno, state) == [value |-> CircuitValue, state |-> state]

stdResolveImpl(rawPath, state) ==
  LET tokens == tokenizePath(rawPath)
  IN  IF ~tokens.ok
        THEN [value |-> NoValue,
              state |-> emitError(state, "Cannot tokenize annotation path",
                                  "target" :> rawPath)]
        ELSE [value |-> resolveEntities(tokens), state |-> state]

\* Target fields hold strings (StringAttr), so the isa<StringAttr> test of
\* lines 185-189 holds whenever the field is present.
stdResolve(anno, state) ==
  IF getNamed(anno, "target") = NoAttr
    THEN [value |-> NoValue,
          state |-> emitError(state, "No target field in annotation", anno)]
    ELSE stdResolveImpl(getNamed(anno, "target"), state)

tryResolveRequiresTarget(anno, state) ==
  IF getNamed(anno, "target") # NoAttr
    THEN stdResolveImpl(getNamed(anno, "target"), state)
    ELSE [value |-> NoValue,
          state |-> emitError(state, "No target field in annotation", anno)]

tryResolve(anno, state) ==
  IF getNamed(anno, "target") # NoAttr
    THEN stdResolveImpl(getNamed(anno, "target"), state)
    ELSE [value |-> CircuitValue, state |-> state]

\* Dictionary construction: the attributes of d but the one called name.
without(d, name) == [n \in DOMAIN d \ {name} |-> d[n]]

addAnnotation(ref, fieldIdx, anno, state) ==
  LET annotation ==
        IF fieldIdx # 0 THEN anno @@ ("circt.fieldID" :> ToString(fieldIdx)) ELSE anno
  IN  [state EXCEPT !.annotated = Append(@, [ref |-> ref, annotation |-> annotation])]

applyWithoutTargetImplAnchorFirst(target, anno, state, allowNonLocal) ==
  LET nonLocal == "target" \in DOMAIN anno /\ ~isLocal(target)
      nla == buildNLA(target, state)
      anchored == IF nonLocal THEN nla.state ELSE state
  IN  IF ~allowNonLocal /\ ~isLocal(target)
        THEN [failed |-> TRUE, added |-> <<>>,
              state |-> emitError(anchored, "is targeted by a non-local annotation",
                                  anno)]
        ELSE [failed |-> FALSE, added |-> <<>>,
              state |-> addAnnotation(target.ref, target.fieldIdx,
                          IF nonLocal
                            THEN without(anno, "target") @@ ("circt.nonlocal" :> nla.sym)
                            ELSE without(anno, "target"),
                          anchored)]

applyWithoutTargetImpl(target, anno, state, allowNonLocal) ==
  IF ~allowNonLocal /\ ~isLocal(target)
    THEN [failed |-> TRUE, added |-> <<>>,
          state |-> emitError(state, "is targeted by a non-local annotation", anno)]
    ELSE LET nonLocal == "target" \in DOMAIN anno /\ ~isLocal(target)
             nla == buildNLA(target, state)
             newAnnoAttrs ==
               IF nonLocal THEN without(anno, "target") @@ ("circt.nonlocal" :> nla.sym)
               ELSE without(anno, "target")
         IN  [failed |-> FALSE, added |-> <<>>,
              state |-> addAnnotation(target.ref, target.fieldIdx, newAnnoAttrs,
                                      IF nonLocal THEN nla.state ELSE state)]

applyWithoutTargetUnchecked(applier, target, anno, state) ==
  applyWithoutTargetImpl(target, anno, state, applier.allowNonLocal)

\* The applier templates: typed says whether the target's kind is checked
\* against types, and whether a port is an acceptable target.
applyWithoutTarget(applier, target, anno, state) ==
  IF applier.typed /\ target.ref.kind = "port" /\ ~applier.allowPortAnnoTarget
    THEN [failed |-> TRUE, added |-> <<>>, state |-> state]
  ELSE IF applier.typed /\ target.ref.kind # "port" /\ target.ref.op \notin applier.types
    THEN [failed |-> TRUE, added |-> <<>>, state |-> state]
  ELSE applyWithoutTargetImpl(target, anno, state, applier.allowNonLocal)

drop(target, anno, state) == [failed |-> FALSE, added |-> <<>>, state |-> state]

\* The name of module m and the module of a name.
moduleName(m) == "M" \o ToString(m)

\* An applier that synthesizes annotations and hands them to
\* state.addToWorklistFn, one after the other: as many test annotations as
\* the annotation's "children" attribute says.
synthesized(anno) ==
  CASE getNamed(anno, "children") = "2" ->
         <<("class" :> "circt.testNT") @@ ("data" :> "child 1"),
           ("class" :> "circt.test") @@ ("data" :> "child 2")>>
    [] getNamed(anno, "children") = "nested" ->
         <<("class" :> "viewAnnoClass") @@ ("children" :> "2"),
           ("class" :> "circt.testNT") @@ ("data" :> "child 3")>>
    [] getNamed(anno, "children") = "tap" ->
         <<("class" :> "dataTapsClass") @@ ("source" :> moduleName(1))
             @@ ("sink" :> moduleName(2))>>
    [] OTHER -> <<>>

applyGCTView(target, anno, state) ==
  [failed |-> FALSE, added |-> synthesized(anno), state |-> state]

\* The module of a name, 0 if there is none.
moduleNamed(name) ==
  IF \E m \in Modules : moduleName(m) = name
    THEN CHOOSE m \in Modules : moduleName(m) = name
    ELSE 0

\* An applier that registers a wiring problem: from the module the
\* annotation names as its source to the one it names as its sink.
applyGCTDataTaps(target, anno, state) ==
  LET source == moduleNamed(getNamed(anno, "source"))
      sink == moduleNamed(getNamed(anno, "sink"))
  IN  IF source = 0 \/ sink = 0
        THEN [failed |-> TRUE, added |-> <<>>, state |-> state]
        ELSE [failed |-> FALSE, added |-> <<>>,
              state |-> [state EXCEPT !.wiringProblems =
                           Append(@, [source |-> source, sink |-> sink,
                                      isRefType |-> getNamed(anno, "ref") = "true"])]]

Untyped(allowNonLocal) ==
  [fn |-> "applyWithoutTarget", allowNonLocal |-> allowNonLocal, typed |-> FALSE,
   allowPortAnnoTarget |-> FALSE, types |-> {}]

Typed(allowNonLocal, allowPortAnnoTarget, types) ==
  [fn |-> "applyWithoutTarget", allowNonLocal |-> allowNonLocal, typed |-> TRUE,
   allowPortAnnoTarget |-> allowPortAnnoTarget, types |-> types]

NoTargetAnnotation == [resolver |-> "noResolve", applier |-> Typed(FALSE, FALSE, {"CircuitOp"})]

\* The rows of the table that the sample annotations use; a class constant
\* stands for the string it names.
annotationRecords ==
  ("circt.test" :> [resolver |-> "stdResolve", applier |-> Untyped(TRUE)])
  @@ ("circt.testLocalOnly" :> [resolver |-> "stdResolve", applier |-> Untyped(FALSE)])
  @@ ("circt.testNT" :> [resolver |-> "noResolve", applier |-> Untyped(FALSE)])
  @@ ("circt.missing" :> [resolver |-> "tryResolve", applier |-> Untyped(TRUE)])
  @@ ("viewAnnoClass" :> [resolver |-> "noResolve", applier |-> [fn |-> "applyGCTView"]])
  @@ ("dataTapsClass" :>
        [resolver |-> "noResolve", applier |-> [fn |-> "applyGCTDataTaps"]])
  @@ ("dontTouchAnnoClass" :>
        [resolver |-> "stdResolve",
         applier |-> Typed(TRUE, TRUE, {"WireOp", "NodeOp", "RegOp", "RegResetOp",
                                        "InstanceOp", "MemOp", "CombMemOp",
                                        "MemoryPortOp", "SeqMemOp"})])
  @@ ("dutAnnoClass" :> [resolver |-> "stdResolve",
                         applier |-> Typed(FALSE, FALSE, {"FModuleOp"})])
  @@ ("enumDefAnnoClass" :> [resolver |-> "noResolve", applier |-> [fn |-> "drop"]])
  @@ ("testBenchDirAnnoClass" :> NoTargetAnnotation)

NoRecord == [resolver |-> "none"]

getAnnotationHandlerLenient(annoStr, ignoreUnhandled) ==
  IF annoStr \in DOMAIN annotationRecords THEN annotationRecords[annoStr]
  ELSE annotationRecords["circt.missing"]

getAnnotationHandler(annoStr, ignoreUnhandled) ==
  IF annoStr \in DOMAIN annotationRecords THEN annotationRecords[annoStr]
  ELSE IF ignoreUnhandled THEN annotationRecords["circt.missing"]
  ELSE NoRecord

resolve(record, anno, state) ==
  CASE record.resolver = "noResolve" -> noResolve(anno, state)
    [] record.resolver = "stdResolve" -> stdResolve(anno, state)
    [] record.resolver = "tryResolve" -> tryResolve(anno, state)

apply(record, target, anno, state) ==
  CASE record.applier.fn = "applyWithoutTarget" ->
         applyWithoutTarget(record.applier, target, anno, state)
    [] record.applier.fn = "drop" -> drop(target, anno, state)
    [] record.applier.fn = "applyGCTView" -> applyGCTView(target, anno, state)
    [] record.applier.fn = "applyGCTDataTaps" -> applyGCTDataTaps(target, anno, state)

\* LowerAnnotationsPass::applyAnnotation: whether it failed, the state it
\* leaves, the annotations its applier enqueued and the unhandled count.
applyAnnotation(anno, state, unhandled, ignoreUnhandled, ignoreClassless) ==
  LET hasClass == "class" \in DOMAIN anno
      annoClassVal == IF hasClass THEN anno["class"] ELSE "circt.missing"
      first == getAnnotationHandler(annoClassVal, FALSE)
      record == IF first = NoRecord
                  THEN getAnnotationHandler(annoClassVal, ignoreUnhandled)
                  ELSE first
      nowUnhandled == IF first = NoRecord THEN unhandled + 1 ELSE unhandled
  IN  IF ~hasClass /\ ~ignoreClassless
        THEN [failed |-> TRUE, added |-> <<>>, numUnhandled |-> unhandled,
              state |-> emitError(state, "Annotation without a class", anno)]
      ELSE IF first = NoRecord /\ ~ignoreUnhandled
        THEN [failed |-> TRUE, added |-> <<>>, numUnhandled |-> nowUnhandled,
              state |-> emitError(state, "Unhandled annotation", anno)]
      ELSE LET target == resolve(record, anno, state)
           IN  IF ~target.value.ok
                 THEN [failed |-> TRUE, added |-> <<>>, numUnhandled |-> nowUnhandled,
                       state |-> emitError(target.state,
                                           "Unable to resolve target of annotation", anno)]
               ELSE LET applied == apply(record, target.value, anno, target.state)
                    IN  IF applied.failed
                          THEN [failed |-> TRUE, added |-> applied.added,
                                numUnhandled |-> nowUnhandled,
                                state |-> emitError(applied.state,
                                                    "Unable to apply annotation", anno)]
                          ELSE [failed |-> FALSE, added |-> applied.added,
                                numUnhandled |-> nowUnhandled, state |-> applied.state]

\* ------------------------------------ specification: the annotation driver
\* Annotations of every kind the table distinguishes: handled and unhandled
\* classes, no class, local and non-local targets, targets of several kinds,
\* missing and malformed targets, and annotations whose applier enqueues.
SampleAnnotations ==
  {("class" :> "circt.test") @@ ("target" :> "~Top|Top>w") @@ ("data" :> "d1"),
   ("class" :> "circt.test") @@ ("target" :> "~Top|Top/a:A>w"),
   ("class" :> "circt.test") @@ ("target" :> "~Top|Top/a:A/b:B>w") @@ ("data" :> "d4"),
   ("class" :> "circt.test") @@ ("data" :> "d5"),
   ("class" :> "circt.test") @@ ("target" :> "not a path"),
   ("class" :> "circt.testLocalOnly") @@ ("target" :> "~Top|Top/a:A>w"),
   ("class" :> "circt.testNT") @@ ("data" :> "d9"),
   ("class" :> "unknown.Class") @@ ("target" :> "~Top|Top>w.f"),
   ("target" :> "~Top|Top>w") @@ ("data" :> "d13"),
   ("data" :> "d14") @@ ("more" :> "m14"),
   ("class" :> "dontTouchAnnoClass") @@ ("target" :> "~Top|Top>p"),
   ("class" :> "dontTouchAnnoClass") @@ ("target" :> "~Top|A"),
   ("class" :> "dutAnnoClass") @@ ("target" :> "~Top|A"),
   ("class" :> "enumDefAnnoClass") @@ ("data" :> "d19"),
   ("class" :> "testBenchDirAnnoClass") @@ ("dirname" :> "tb"),
   ("class" :> "viewAnnoClass") @@ ("children" :> "2")}

AnnotationLists == UNION {[1..n -> SampleAnnotations] : n \in 0..MaxAnnos}

populateWorklistInOrder(worklist, annos) == worklist \o annos

\* The worklist after pushing the annotations in reverse order.
populateWorklist(worklist, annos) == worklist \o Reverse(annos)

countFailuresOnce(failures, failed) ==
  IF failed /\ failures = 0 THEN 1 ELSE failures

\* if (applyAnnotation(attr, state).failed()) ++numFailures;
countFailures(failures, failed) ==
  IF failed THEN failures + 1 ELSE failures

InitAnno ==
  /\ instanceGraph = <<>>
  /\ CacheIdle
  /\ AllUnderIdle
  /\ WiringIdle
  /\ ignoreUnhandledAnno \in BOOLEAN
  /\ ignoreClasslessAnno \in BOOLEAN
  /\ rawAnnotations \in
       {NoRawAnnotations} \cup {[present |-> TRUE, value |-> l] : l \in AnnotationLists}
  /\ annotations = <<>>
  /\ worklistAttrs = <<>>
  /\ numFailures = 0
  /\ numAdded = 0
  /\ numUnhandled = 0
  /\ applyState = EmptyState
  /\ processed = <<>>
  /\ statistics = NoStatistics
  /\ passFailed = FALSE
  /\ annoPc = "start"

\* runOnOperation up to the worklist loop: without the attribute the pass
\* returns at once.
StartPass ==
  /\ annoPc = "start"
  /\ IF ~rawAnnotations.present
       THEN /\ annoPc' = "done"
            /\ UNCHANGED <<rawAnnotations, annotations, worklistAttrs>>
       ELSE /\ annotations' = rawAnnotations.value
            /\ rawAnnotations' = NoRawAnnotations
            /\ worklistAttrs' = populateWorklist(worklistAttrs, rawAnnotations.value)
            /\ annoPc' = "loop"
  /\ UNCHANGED <<instanceGraph, cacheVars, auVars, wiringVars, ignoreUnhandledAnno,
                 ignoreClasslessAnno, numFailures, numAdded, numUnhandled,
                 applyState, processed, statistics, passFailed>>

addToWorklistAtBottom(worklist, added) == added \o worklist

\* The addToWorklist calls of one applier: each pushes onto the back.
addToWorklist(worklist, added) == worklist \o added

\* One iteration of the worklist loop.
ProcessAnnotation ==
  /\ annoPc = "loop"
  /\ worklistAttrs # <<>>
  /\ LET attr == worklistAttrs[Len(worklistAttrs)]
         rest == SubSeq(worklistAttrs, 1, Len(worklistAttrs) - 1)
         r == applyAnnotation(attr, applyState, numUnhandled, ignoreUnhandledAnno,
                              ignoreClasslessAnno)
     IN  /\ worklistAttrs' = addToWorklist(rest, r.added)
         /\ numAdded' = numAdded + Len(r.added)
         /\ numUnhandled' = r.numUnhandled
         /\ applyState' = r.state
         /\ numFailures' = countFailures(numFailures, r.failed)
         /\ processed' = Append(processed, attr)
  /\ UNCHANGED <<instanceGraph, cacheVars, auVars, wiringVars, ignoreUnhandledAnno,
                 ignoreClasslessAnno, rawAnnotations, annotations, statistics,
                 passFailed, annoPc>>

\* The end of runOnOperation; with no wiring problem registered the
\* resolver in between changes nothing.
FinishPass ==
  /\ annoPc = "loop"
  /\ worklistAttrs = <<>>
  /\ statistics' =
       [numRawAnnotations |-> statistics.numRawAnnotations + Len(annotations),
        numAddedAnnos |-> statistics.numAddedAnnos + numAdded,
        numAnnos |-> statistics.numAnnos + numAdded + Len(annotations),
        numReusedHierPathOps |->
          statistics.numReusedHierPathOps + applyState.numReusedHierPaths]
  /\ passFailed' = (numFailures # 0)
  /\ annoPc' = "done"
  /\ UNCHANGED <<instanceGraph, cacheVars, auVars, wiringVars, ignoreUnhandledAnno,
                 ignoreClasslessAnno, rawAnnotations, annotations, worklistAttrs,
                 numFailures, numAdded, numUnhandled, applyState, processed>>

NextAnno ==
  \/ StartPass
  \/ ProcessAnnotation
  \/ FinishPass

SpecAnno == InitAnno /\ [][NextAnno]_vars

\* --------------------------- specification: one annotation of every shape
\* The length of the lists of this specification.
MaxApplied == 1

WideClasses == (DOMAIN annotationRecords) \cup {"unknown.Class"}

WideTargets ==
  {"~Top|Top>w", "~Top|Top>w.f", "~Top|Top>p", "~Top|A", "~Top|Top/a:A", "~Top|Top/a:A>w",
   "~Top|Top/a:A>v", "~Top|Top/a:A/b:B>w", "~Top|Missing>w", "not a path"}

\* An annotation with a payload and, unless NoAttr is given for it, a class
\* and a target.
MakeAnno(class, target) ==
  LET payload == ("data" :> "d") @@ ("more" :> "m")
      withClass == IF class = NoAttr THEN payload ELSE payload @@ ("class" :> class)
  IN  IF target = NoAttr THEN withClass ELSE withClass @@ ("target" :> target)

WideAnnotations ==
  {MakeAnno(c, t) : c \in WideClasses \cup {NoAttr}, t \in WideTargets \cup {NoAttr}}

WideLists == UNION {[1..n -> WideAnnotations] : n \in 1..MaxApplied}

InitApply ==
  /\ instanceGraph = <<>>
  /\ CacheIdle
  /\ AllUnderIdle
  /\ WiringIdle
  /\ ignoreUnhandledAnno \in BOOLEAN
  /\ ignoreClasslessAnno \in BOOLEAN
  /\ rawAnnotations \in {[present |-> TRUE, value |-> l] : l \in WideLists}
  /\ annotations = <<>>
  /\ worklistAttrs = <<>>
  /\ numFailures = 0
  /\ numAdded = 0
  /\ numUnhandled = 0
  /\ applyState = EmptyState
  /\ processed = <<>>
  /\ statistics = NoStatistics
  /\ passFailed = FALSE
  /\ annoPc = "start"

SpecApply == InitApply /\ [][NextAnno]_vars

\* ------------------------------- specification: non-local annotations
\* Annotations whose targets share or do not share an instance path, with
\* appliers that accept and that reject non-local targets.
AnchorSamples ==
  {("class" :> "circt.test") @@ ("target" :> "~Top|Top/a:A>w"),
   ("class" :> "circt.test") @@ ("target" :> "~Top|Top/a:A>v") @@ ("data" :> "d"),
   ("class" :> "circt.test") @@ ("target" :> "~Top|Top/a:A/b:B>w"),
   ("class" :> "dontTouchAnnoClass") @@ ("target" :> "~Top|Top/a:A>w"),
   ("class" :> "circt.testLocalOnly") @@ ("target" :> "~Top|Top/a:A>w"),
   ("class" :> "circt.testNT") @@ ("target" :> "~Top|Top/a:A>w"),
   ("class" :> "unknown.Class") @@ ("target" :> "~Top|Top/a:A/b:B>w"),
   ("class" :> "circt.test") @@ ("target" :> "~Top|Top>w")}

AnchorLists == UNION {[1..n -> AnchorSamples] : n \in 0..MaxAnnos}

InitAnchors ==
  /\ instanceGraph = <<>>
  /\ CacheIdle
  /\ AllUnderIdle
  /\ WiringIdle
  /\ ignoreUnhandledAnno \in BOOLEAN
  /\ ignoreClasslessAnno = FALSE
  /\ rawAnnotations \in {[present |-> TRUE, value |-> l] : l \in AnchorLists}
  /\ annotations = <<>>
  /\ worklistAttrs = <<>>
  /\ numFailures = 0
  /\ numAdded = 0
  /\ numUnhandled = 0
  /\ applyState = EmptyState
  /\ processed = <<>>
  /\ statistics = NoStatistics
  /\ passFailed = FALSE
  /\ annoPc = "start"

SpecAnchors == InitAnchors /\ [][NextAnno]_vars

\* ------------------------ specification: the whole pass, driver and resolver
\* The modules and instance records of its designs, the length of its lists.
PassModules == 2
PassRecords == 2
MaxPass == 2

\* The ports a module of these designs has before the pass.
PassPorts(m) == InitialPorts(m + 1)

PassGraphs == {g \in GraphsOver(PassModules) : Len(g) <= PassRecords}

\* Annotations that register a wiring problem between two modules, one that
\* enqueues such an annotation, one that is attached and one that fails.
PassSamples ==
  {("class" :> "dataTapsClass") @@ ("source" :> moduleName(m)) @@ ("sink" :> moduleName(n))
     : m \in 1..PassModules, n \in 1..PassModules}
  \cup {("class" :> "viewAnnoClass") @@ ("children" :> "tap"),
        ("class" :> "circt.test") @@ ("target" :> "~Top|Top>w"),
        ("class" :> "unknown.Class")}

PassLists == UNION {[1..n -> PassSamples] : n \in 0..MaxPass}

InitPass ==
  /\ instanceGraph \in PassGraphs
  /\ CacheIdle
  /\ AllUnderIdle
  /\ assertsEnabled \in BOOLEAN
  /\ wiringProblems = <<>>
  /\ pc = "idle"
  /\ index = 0
  /\ moduleModifications = <<>>
  /\ lcaOf = <<>>
  /\ ports = [m \in Modules |-> PassPorts(m)]
  /\ numResults = [r \in 1..Len(instanceGraph) |->
                     Len(PassPorts(instanceGraph[r].target))]
  /\ connects = [m \in Modules |-> <<>>]
  /\ order = <<>>
  /\ pos = 0
  /\ cur = NoModule
  /\ ignoreUnhandledAnno = FALSE
  /\ ignoreClasslessAnno = FALSE
  /\ rawAnnotations \in
       {NoRawAnnotations} \cup {[present |-> TRUE, value |-> l] : l \in PassLists}
  /\ annotations = <<>>
  /\ worklistAttrs = <<>>
  /\ numFailures = 0
  /\ numAdded = 0
  /\ numUnhandled = 0
  /\ applyState = EmptyState
  /\ processed = <<>>
  /\ statistics = NoStatistics
  /\ passFailed = FALSE
  /\ annoPc = "start"

worklistEmptyOrNot(worklist) == TRUE

\* while (!worklistAttrs.empty()): the loop is left with an empty worklist.
worklistEmpty(worklist) == worklist = <<>>

\* The worklist loop is over: the resolver starts on state.wiringProblems.
BeginResolve ==
  /\ annoPc = "loop"
  /\ pc = "idle"
  /\ worklistEmpty(worklistAttrs)
  /\ annoPc' = "resolve"
  /\ wiringProblems' = applyState.wiringProblems
  /\ pc' = "group"
  /\ UNCHANGED <<instanceGraph, cacheVars, auVars, assertsEnabled, index,
                 moduleModifications, lcaOf, ports, numResults, connects, order,
                 pos, cur, ignoreUnhandledAnno, ignoreClasslessAnno, rawAnnotations,
                 annotations, worklistAttrs, numFailures, numAdded, numUnhandled,
                 applyState, processed, statistics, passFailed>>

\* The resolver is through: statistics and signalPassFailure.
EndPass ==
  /\ annoPc = "resolve"
  /\ pc = "done"
  /\ statistics' =
       [numRawAnnotations |-> statistics.numRawAnnotations + Len(annotations),
        numAddedAnnos |-> statistics.numAddedAnnos + numAdded,
        numAnnos |-> statistics.numAnnos + numAdded + Len(annotations),
        numReusedHierPathOps |->
          statistics.numReusedHierPathOps + applyState.numReusedHierPaths]
  /\ passFailed' = (numFailures # 0)
  /\ annoPc' = "done"
  /\ UNCHANGED <<instanceGraph, cacheVars, auVars, wiringVars, ignoreUnhandledAnno,
                 ignoreClasslessAnno, rawAnnotations, annotations, worklistAttrs,
                 numFailures, numAdded, numUnhandled, applyState, processed>>

NextPass ==
  \/ StartPass
  \/ ProcessAnnotation
  \/ BeginResolve
  \/ GroupProblem
  \/ StartRewrite
  \/ VisitModule
  \/ ReplaceUse
  \/ FinishRewrite
  \/ EndPass

SpecPass == InitPass /\ [][NextPass]_vars

\* ------------------- specification: the resolver on a design with connects
\* Two wiring problems between the same two modules.
ProblemPairs ==
  {pq \in Problems \X Problems :
     pq[1].source = pq[2].source /\ pq[1].sink = pq[2].sink}

RewireLists == {<<p>> : p \in Problems} \cup ProblemPairs

\* A value of the design that is neither source nor sink of a problem.
DesignValue(r) == <<"design", r, 0, 0>>

\* The connects a design has before the pass: in the module that holds an
\* instance, every result of the instance (a port of the instantiated
\* module, here an input) is driven by a value of that module.
DesignConnects(g, pts) ==
  [m \in Modules |->
     LET rs == SelectSeq2([r \in 1..Len(g) |-> r], 1,
                          [r \in 1..Len(g) |-> g[r].parent = m /\ pts[g[r].target] # <<>>])
     IN  [k \in 1..Len(rs) |->
            [dest |-> Result(g[rs[k]].inst, 0), src |-> DesignValue(rs[k]),
             cast |-> "none", via |-> "design", id |-> 0]]]

InitRewire ==
  /\ AnnoIdle
  /\ instanceGraph \in Graphs
  /\ CacheIdle
  /\ AllUnderIdle
  /\ assertsEnabled \in BOOLEAN
  /\ wiringProblems \in RewireLists
  /\ pc = "group"
  /\ index = 0
  /\ moduleModifications = <<>>
  /\ lcaOf = <<>>
  /\ ports = [m \in Modules |-> PassPorts(m)]
  /\ numResults = [r \in 1..Len(instanceGraph) |->
                     Len(PassPorts(instanceGraph[r].target))]
  /\ connects = DesignConnects(instanceGraph, [m \in Modules |-> PassPorts(m)])
  /\ order = <<>>
  /\ pos = 0
  /\ cur = NoModule

SpecRewire == InitRewire /\ [][NextWiring]_vars

\* ------------------------- specification: the worklist loop runs to its end
DrainSamples ==
  {("class" :> "viewAnnoClass") @@ ("children" :> "2"),
   ("class" :> "viewAnnoClass") @@ ("children" :> "nested"),
   ("class" :> "viewAnnoClass") @@ ("children" :> "0"),
   ("class" :> "circt.test") @@ ("target" :> "~Top|Top>w") @@ ("data" :> "d1"),
   ("class" :> "circt.testNT") @@ ("data" :> "d9"),
   ("class" :> "unknown.Class") @@ ("target" :> "~Top|Top>w.f")}

DrainLists == UNION {[1..n -> DrainSamples] : n \in 0..MaxAnnos}

InitDrain ==
  /\ instanceGraph = <<>>
  /\ CacheIdle
  /\ AllUnderIdle
  /\ WiringIdle
  /\ ignoreUnhandledAnno \in BOOLEAN
  /\ ignoreClasslessAnno = FALSE
  /\ rawAnnotations \in
       {NoRawAnnotations} \cup {[present |-> TRUE, value |-> l] : l \in DrainLists}
  /\ annotations = <<>>
  /\ worklistAttrs = <<>>
  /\ numFailures = 0
  /\ numAdded = 0
  /\ numUnhandled = 0
  /\ applyState = EmptyState
  /\ processed = <<>>
  /\ statistics = NoStatistics
  /\ passFailed = FALSE
  /\ annoPc = "start"

\* runOnOperation is one thread of control: it takes its next step as long
\* as it has one.
SpecDrain == InitDrain /\ [][NextAnno]_vars /\ WF_vars(NextAnno)

\* ------------------------------------------------ claims: the path cache
Range(s) == {s[k] : k \in 1..Len(s)}

\* The path set of the specification's recursive definition, on the graph
\* as it stands: the root has the empty path alone; any other module has,
\* for every record that instantiates it and every path of that record's
\* parent, the parent path extended by the record's instance.
RECURSIVE PathSet(_, _)
PathSet(g, m) ==
  IF m = TopLevelNode THEN {<<>>}
  ELSE UNION {{Append(p, g[i].inst) : p \in PathSet(g, g[i].parent)}
              : i \in {j \in 1..Len(g) : g[j].target = m}}

\* C1: getAbsolutePaths(M) returns exactly the recursively defined path set
\* of M, each path once, in every graph and whatever the cache holds.
C1_PathsAreTheRecursiveSet ==
  lastCall.op = "get" =>
    /\ Range(lastCall.paths) = PathSet(instanceGraph, lastCall.module)
    /\ Len(lastCall.paths) = Cardinality(PathSet(instanceGraph, lastCall.module))

\* A module reached only through a chain of two instances was queried after
\* an instance of the design had been replaced.
C1_Witness ==
  /\ lastCall.op = "get"
  /\ Len(lastCall.paths) = 1
  /\ Len(lastCall.paths[1]) = 2
  /\ numReplaced > 0

\* C2: replaceInstance(old, new) leaves the cache with the same entries,
\* every entry with as many paths of the same lengths as before, and every
\* position of every path unchanged except those that held old, which hold
\* new.
C2_ReplaceSubstitutesInPlace ==
  lastCall.op = "replace" =>
    /\ DOMAIN absolutePathsCache = DOMAIN lastCall.before
    /\ \A m \in DOMAIN lastCall.before :
         /\ Len(absolutePathsCache[m]) = Len(lastCall.before[m])
         /\ \A k \in 1..Len(lastCall.before[m]) :
              /\ Len(absolutePathsCache[m][k]) = Len(lastCall.before[m][k])
              /\ \A j \in 1..Len(lastCall.before[m][k]) :
                   absolutePathsCache[m][k][j] =
                     IF lastCall.before[m][k][j] = lastCall.old
                     THEN lastCall.new
                     ELSE lastCall.before[m][k][j]

\* A replacement rewrote one path of a cache entry whose first path does not
\* hold the replaced instance.
C2_Witness ==
  /\ lastCall.op = "replace"
  /\ \E m \in DOMAIN absolutePathsCache :
       /\ Len(absolutePathsCache[m]) > 1
       /\ ~is_contained(absolutePathsCache[m][1], lastCall.new)
       /\ \E k \in 1..Len(absolutePathsCache[m]) :
            is_contained(absolutePathsCache[m][k], lastCall.new)

\* C10: a call of getAbsolutePaths(M) that follows an earlier call for M
\* with no replaceInstance in between returns the same paths, traverses no
\* use record and allocates nothing.
C10_SecondCallIsCached ==
  (lastCall.op = "get" /\ lastCall.before # <<>>) =>
    /\ lastCall.paths = lastCall.before[1]
    /\ lastCall.allocs = 0
    /\ lastCall.traversed = 0

\* A module with two paths was queried a second time.
C10_Witness ==
  /\ lastCall.op = "get"
  /\ lastCall.before # <<>>
  /\ lastCall.module # TopLevelNode
  /\ Len(lastCall.paths) = 2

\* -------------------------------------------------------- claims: allUnder
\* The module instantiated by an instance of a path.
TargetOf(g, inst) == g[inst[1]].target

\* Every absolute path to module m holds an instance of module top.
EveryPathThroughInstanceOf(g, m, top) ==
  \A p \in PathSet(g, m) : \E k \in 1..Len(p) : TargetOf(g, p[k]) = top

\* The chains of modules that lead from a module without uses down to m,
\* each instantiating the next.
RECURSIVE ChainsTo(_, _)
ChainsTo(g, m) ==
  IF noUses(g, m) THEN {<<m>>}
  ELSE UNION {{Append(c, m) : c \in ChainsTo(g, g[i].parent)}
              : i \in {j \in 1..Len(g) : g[j].target = m}}

\* C7 as stated: allUnder({n}, top) is true exactly when every absolute path
\* to the module that holds n passes through an instance of top's module.
C7_AsStated ==
  (auPc = "done" /\ Len(auNodes) = 1) =>
    (auResult = "true" <=>
       EveryPathThroughInstanceOf(instanceGraph, instanceGraph[auNodes[1]].parent, auTop))

\* C7, amended: allUnder(nodes, top) is true exactly when, for every given
\* record, every chain of instantiations from a module without uses down to
\* the module that holds the record contains top's module (as its first
\* module, on the way, or as the holding module itself).
C7_TopOnEveryChain ==
  auPc = "done" =>
    (auResult = "true" <=>
       \A k \in 1..Len(auNodes) :
         \A c \in ChainsTo(instanceGraph, instanceGraph[auNodes[k]].parent) :
           auTop \in Range(c))

\* allUnder answered true for one record held by a module other than top,
\* under a top that is not the root.
C7_Witness ==
  /\ auPc = "done"
  /\ auResult = "true"
  /\ Len(auNodes) = 1
  /\ auTop # TopLevelNode
  /\ instanceGraph[auNodes[1]].parent # auTop
  /\ PathSet(instanceGraph, instanceGraph[auNodes[1]].parent) # {}

\* ------------------------------------------------ claims: the resolver
PathCount(m) == Cardinality(PathSet(instanceGraph, m))

\* The source module and the sink module of problem i have one path each.
SinglePaths(i) ==
  /\ PathCount(wiringProblems[i].source) = 1
  /\ PathCount(wiringProblems[i].sink) = 1

ThePath(m) == CHOOSE p \in PathSet(instanceGraph, m) : TRUE

Min(a, b) == IF a <= b THEN a ELSE b

\* The length of the longest common prefix of two paths.
CommonPrefix(p, q) ==
  CHOOSE c \in 0..Min(Len(p), Len(q)) :
    /\ \A j \in 1..c : p[j] = q[j]
    /\ c = Min(Len(p), Len(q)) \/ p[c + 1] # q[c + 1]

Suffix(p, c) == SubSeq(p, c + 1, Len(p))

\* No instance has been replaced yet: the paths are those the LCA loop saw.
BeforeRewrite == pos = 0 /\ cur = NoModule

\* C3 as stated: for a problem whose two modules have one path each, the LCA
\* loop ends having consumed exactly the longest common prefix of the two
\* paths: the LCA is the module of the last shared instance (the root if
\* none), the chains are the two remaining suffixes; whatever the two paths.
\* (States that follow a read of undefined behaviour are left aside: what is
\* judged is what the code does where its behaviour is defined.)
C3_AsStated ==
  \A i \in 1..index :
    (SinglePaths(i) /\ pc # "corrupt") =>
      /\ i \in DOMAIN lcaOf
      /\ BeforeRewrite =>
           LET sp == ThePath(wiringProblems[i].source)
               kp == ThePath(wiringProblems[i].sink)
               c == CommonPrefix(sp, kp)
           IN /\ lcaOf[i].lca = (IF c = 0 THEN TopLevelNode
                                 ELSE TargetOf(instanceGraph, sp[c]))
              /\ lcaOf[i].sources = Suffix(sp, c)
              /\ lcaOf[i].sinks = Suffix(kp, c)

\* C8 as stated: a problem whose source or sink module has no path or several
\* makes the resolution fail and stop at once: no later problem is grouped,
\* no port is planned for it or added, no instance replaced, no connect made.
\* (States that follow a read of undefined behaviour are left aside.)
C8_AsStated ==
  \A i \in 1..index :
    (~SinglePaths(i) /\ pc # "corrupt") =>
      /\ pc = "crashed"
      /\ index = i
      /\ \A m \in DOMAIN moduleModifications :
           \A k \in 1..Len(moduleModifications[m].portsToAdd) :
             moduleModifications[m].portsToAdd[k].id # i
      /\ \A m \in Modules : ports[m] = InitialPorts(m) /\ connects[m] = <<>>
      /\ \A r \in 1..Len(instanceGraph) : instanceGraph[r].inst[2] = 0

Leaf(m) == \A r \in 1..Len(instanceGraph) : instanceGraph[r].parent # m

\* One problem between two different leaf modules, each with one path, has
\* been resolved.
C4_Case ==
  /\ pc = "done"
  /\ Len(wiringProblems) = 1
  /\ wiringProblems[1].source # wiringProblems[1].sink
  /\ Leaf(wiringProblems[1].source)
  /\ Leaf(wiringProblems[1].sink)
  /\ SinglePaths(1)

GainedOnePort(m, direction) ==
  /\ Len(ports[m]) = Len(InitialPorts(m)) + 1
  /\ SubSeq(ports[m], 1, Len(InitialPorts(m))) = InitialPorts(m)
  /\ ports[m][Len(ports[m])].direction = direction
  /\ ports[m][Len(ports[m])].id = 1

Uturns(m) == {k \in 1..Len(connects[m]) : connects[m][k].via = "uturn"}

\* C4: after one problem between two sibling leaf modules is resolved, every
\* module of the to-source chain has exactly one new port, an output, every
\* module of the to-sink chain exactly one new port, an input, the LCA module
\* has its old ports and exactly one U-turn connect, and every other module
\* has its old ports.
C4_PortThreading ==
  C4_Case =>
    LET sp == ThePath(wiringProblems[1].source)
        kp == ThePath(wiringProblems[1].sink)
        c == CommonPrefix(sp, kp)
        lca == IF c = 0 THEN TopLevelNode ELSE TargetOf(instanceGraph, sp[c])
        toSource == {TargetOf(instanceGraph, sp[k]) : k \in (c + 1)..Len(sp)}
        toSink == {TargetOf(instanceGraph, kp[k]) : k \in (c + 1)..Len(kp)}
    IN /\ \A m \in toSource : GainedOnePort(m, "out")
       /\ \A m \in toSink : GainedOnePort(m, "in")
       /\ ports[lca] = InitialPorts(lca)
       /\ Cardinality(Uturns(lca)) = 1
       /\ \A m \in Modules \ (toSource \cup toSink) : ports[m] = InitialPorts(m)

\* The case of C4 with a source two instances below the LCA.
C4_Witness ==
  /\ C4_Case
  /\ Len(ThePath(wiringProblems[1].source)) = 2
  /\ Len(ThePath(wiringProblems[1].sink)) = 1

Visited == SubSeq(order, 1, pos)

\* C5: the rewrite loop takes no module twice, has taken every module with a
\* path from the root when it ends, and takes a module only after the
\* modules it instantiates: every instance in the body of a module taken
\* instantiates a module taken earlier and has as many results as that
\* module has ports.
C5_ChildrenBeforeParents ==
  pc \in {"rewrite", "done"} =>
    /\ \A j, k \in 1..pos : j # k => order[j] # order[k]
    /\ pc = "done" => Range(Visited) = {m \in Modules : PathSet(instanceGraph, m) # {}}
    /\ \A k \in 1..pos :
         \A r \in 1..Len(instanceGraph) :
           instanceGraph[r].parent = order[k] =>
             /\ \E j \in 1..(k - 1) : order[j] = instanceGraph[r].target
             /\ numResults[r] = Len(ports[instanceGraph[r].target])

\* A module other than the root was rewritten, with new ports, after a module
\* it instantiates had gained a port.
C5_Witness ==
  /\ pc = "done"
  /\ \E r \in 1..Len(instanceGraph) :
       /\ numResults[r] > Len(InitialPorts(instanceGraph[r].target))
       /\ instanceGraph[r].parent # TopLevelNode
       /\ Len(ports[instanceGraph[r].parent]) > Len(InitialPorts(instanceGraph[r].parent))

\* C9: throughout the rewrite phase, every instance of every cached path is
\* the live instance of its record.
C9_CachedPathsLive ==
  pc \in {"rewrite", "done"} =>
    \A m \in DOMAIN absolutePathsCache :
      \A k \in 1..Len(absolutePathsCache[m]) :
        \A j \in 1..Len(absolutePathsCache[m][k]) :
          absolutePathsCache[m][k][j] \in LiveInsts(instanceGraph)

\* In the middle of the rewrite phase a cached path of two instances holds a
\* clone.
C9_Witness ==
  /\ pc = "rewrite"
  /\ cur.usesLeft # <<>>
  /\ \E m \in DOMAIN absolutePathsCache :
       \E k \in 1..Len(absolutePathsCache[m]) :
         /\ Len(absolutePathsCache[m][k]) = 2
         /\ \E j \in 1..2 : absolutePathsCache[m][k][j][2] = 1

\* --------------------------------------- claims: the annotation driver
\* What applyAnnotation does with an annotation when it is the only one.
Alone(anno) ==
  applyAnnotation(anno, EmptyState, 0, ignoreUnhandledAnno, ignoreClasslessAnno)

FailingIn(annos) == {i \in 1..Len(annos) : Alone(annos[i]).failed}

\* An attached annotation with the name of its anchor left open.
AnyAnchor(entry) ==
  [ref |-> entry.ref,
   annotation |-> [n \in DOMAIN entry.annotation |->
                     IF n = "circt.nonlocal" THEN "nla" ELSE entry.annotation[n]]]

AnyAnchors(entries) == [i \in 1..Len(entries) |-> AnyAnchor(entries[i])]

RECURSIVE AttachedAlone(_)
AttachedAlone(annos) ==
  IF annos = <<>> THEN <<>>
  ELSE AnyAnchors(Alone(Head(annos)).state.annotated) \o AttachedAlone(Tail(annos))

InInput(anno) == anno \in SampleAnnotations

\* C6: annotation errors are collected, not fail-fast.  At every point of the
\* loop the failure count is the number of annotations processed so far that
\* fail on their own, so each failing annotation counts exactly once; when the
\* pass ends every annotation of the input list has been processed, in input
\* order, the annotations attached to targets are exactly those the
\* processed annotations attach on their own, in processing order, and the
\* pass is marked failed if and only if at least one annotation failed.
C6_FailuresAreCollected ==
  /\ numFailures = Cardinality(FailingIn(processed))
  /\ AnyAnchors(applyState.annotated) = AttachedAlone(processed)
  /\ annoPc = "done" =>
       /\ worklistAttrs = <<>>
       /\ SelectSeq(processed, InInput) = annotations
       /\ passFailed = (FailingIn(processed) # {})

\* Three annotations, the second of an unknown class in strict mode: one
\* failure, one diagnostic, the first and the third attached, the pass failed.
C6_Witness ==
  /\ annoPc = "done"
  /\ ~ignoreUnhandledAnno
  /\ Len(annotations) = 3
  /\ getNamed(annotations[2], "class") = "unknown.Class"
  /\ getNamed(annotations[1], "class") = "circt.test"
  /\ getNamed(annotations[1], "target") = "~Top|Top>w"
  /\ getNamed(annotations[3], "class") = "circt.testNT"
  /\ numFailures = 1
  /\ Len(applyState.diagnostics) = 1
  /\ applyState.diagnostics[1].message = "Unhandled annotation"
  /\ applyState.diagnostics[1].anno = annotations[2]
  /\ Len(applyState.annotated) = 2
  /\ applyState.annotated[1].ref.name = "w"
  /\ applyState.annotated[1].annotation = without(annotations[1], "target")
  /\ applyState.annotated[2].ref.op = "CircuitOp"
  /\ applyState.annotated[2].annotation = annotations[3]
  /\ passFailed

\* C11: the worklist is seeded with the input list reversed, so as long as no
\* applier has enqueued an annotation the annotations processed so far are a
\* prefix of the input list, the worklist holds the rest of it from back to
\* front, and what has been attached is what that prefix attaches, in order.
C11_InputOrderWithoutEnqueue ==
  (annoPc \in {"loop", "done"} /\ numAdded = 0) =>
    /\ processed \o Reverse(worklistAttrs) = annotations
    /\ AnyAnchors(applyState.annotated) = AttachedAlone(processed)

\* Three different annotations, none of them enqueuing, processed first to
\* last; the first and the last each attached something.
C11_Witness ==
  /\ annoPc = "done"
  /\ numAdded = 0
  /\ Len(annotations) = 3
  /\ annotations[1] # annotations[2]
  /\ annotations[2] # annotations[3]
  /\ annotations[1] # annotations[3]
  /\ processed = annotations
  /\ Len(applyState.annotated) = 2
  /\ applyState.annotated[1].annotation = without(annotations[1], "target")
  /\ applyState.annotated[2].annotation = without(annotations[3], "target")
  /\ Alone(annotations[2]).failed

\* --------------------------------- claims: dispatch, resolvers and appliers
Classless(anno) == "class" \notin DOMAIN anno

UnknownClass(anno) ==
  "class" \in DOMAIN anno /\ anno["class"] \notin DOMAIN annotationRecords

\* Target strings that name nothing in the design or are no path at all.
Unresolvable(anno) ==
  "target" \in DOMAIN anno /\ anno["target"] \in {"not a path", "~Top|Missing>w"}

\* The one annotation of the list has been processed.
AppliedOne == Len(processed) = 1 /\ Len(annotations) = 1

Rejected(message) ==
  /\ numFailures = 1
  /\ Len(applyState.diagnostics) = 1
  /\ applyState.diagnostics[1].message = message
  /\ applyState.diagnostics[1].anno = processed[1]
  /\ applyState.annotated = <<>>

\* What the fallback handler of "circt.missing" does with the annotation: it
\* fails if the annotation has a target that does not resolve, and otherwise
\* attaches the annotation, class included, to the target or the circuit.
FellBack ==
  IF Unresolvable(processed[1])
    THEN /\ numFailures = 1
         /\ applyState.annotated = <<>>
         /\ applyState.diagnostics[Len(applyState.diagnostics)].message =
              "Unable to resolve target of annotation"
    ELSE /\ numFailures = 0
         /\ applyState.diagnostics = <<>>
         /\ Len(applyState.annotated) = 1
         /\ ("target" \notin DOMAIN processed[1]) =>
              applyState.annotated[1].ref.op = "CircuitOp"
         /\ without(without(applyState.annotated[1].annotation, "circt.nonlocal"),
                    "circt.fieldID") = without(processed[1], "target")

\* C12 as stated: with its switch on, an unknown-class or classless
\* annotation never fails.
C12_AsStated ==
  AppliedOne =>
    /\ UnknownClass(processed[1]) =>
         numFailures = (IF ignoreUnhandledAnno THEN 0 ELSE 1)
    /\ Classless(processed[1]) =>
         numFailures = (IF ignoreClasslessAnno THEN 0 ELSE 1)

\* C12: the two switches act independently.  An unknown-class annotation is
\* rejected as unhandled exactly when ignoreUnhandledAnno is off, a classless
\* one is rejected exactly when ignoreClasslessAnno is off, whatever the
\* other switch says; an annotation that is tolerated goes to the fallback
\* handler, which still fails if the annotation's target does not resolve.
C12_SwitchesIndependent ==
  AppliedOne =>
    /\ UnknownClass(processed[1]) =>
         /\ ~ignoreUnhandledAnno => Rejected("Unhandled annotation")
         /\ ignoreUnhandledAnno => FellBack
         /\ numUnhandled = 1
    /\ Classless(processed[1]) =>
         /\ ~ignoreClasslessAnno => Rejected("Annotation without a class")
         /\ ignoreClasslessAnno => FellBack
         /\ numUnhandled = 0

\* Only the unknown-class switch is on and an unknown-class annotation with
\* a local target went through the fallback handler.
C12_Witness ==
  /\ AppliedOne
  /\ annoPc = "done"
  /\ UnknownClass(processed[1])
  /\ ignoreUnhandledAnno
  /\ ~ignoreClasslessAnno
  /\ getNamed(processed[1], "target") = "~Top|Top>w"
  /\ numFailures = 0
  /\ ~passFailed
  /\ Len(applyState.annotated) = 1
  /\ applyState.annotated[1].annotation["class"] = "unknown.Class"

\* The value a target string resolves to.
Resolved(path) == resolveEntities(tokenizePath(path))

HasResolvedTarget(anno) ==
  /\ "target" \in DOMAIN anno
  /\ tokenizePath(anno["target"]).ok
  /\ Resolved(anno["target"]).ok

\* The annotation's class has a standard-path resolver and an applier that
\* accepts the kind of the annotation's target.
KindAccepted(anno) ==
  /\ "class" \in DOMAIN anno
  /\ anno["class"] \in DOMAIN annotationRecords
  /\ annotationRecords[anno["class"]].resolver = "stdResolve"
  /\ annotationRecords[anno["class"]].applier.fn = "applyWithoutTarget"
  /\ HasResolvedTarget(anno)
  /\ LET applier == annotationRecords[anno["class"]].applier
         ref == Resolved(anno["target"]).ref
     IN  applier.typed =>
           IF ref.kind = "port" THEN applier.allowPortAnnoTarget
           ELSE ref.op \in applier.types

\* The annotation reaches an applier that does not allow non-local targets
\* with a target that goes through instances.
RejectsNonLocal(anno) ==
  /\ KindAccepted(anno)
  /\ ~annotationRecords[anno["class"]].applier.allowNonLocal
  /\ Resolved(anno["target"]).instances # <<>>

NextAttr == worklistAttrs[Len(worklistAttrs)]

\* C13: an applier that does not allow non-local targets fails on a target
\* reached through instances and leaves the state as it was: the iteration
\* that processes such an annotation counts one failure, attaches nothing,
\* creates no anchor and reuses none; it only reports the error.
C13_NonLocalRejectedUnchanged ==
  [][(annoPc = "loop" /\ worklistAttrs # <<>> /\ RejectsNonLocal(NextAttr)) =>
       /\ numFailures' = numFailures + 1
       /\ applyState'.annotated = applyState.annotated
       /\ applyState'.hierPaths = applyState.hierPaths
       /\ applyState'.instPathToNLAMap = applyState.instPathToNLAMap
       /\ applyState'.numReusedHierPaths = applyState.numReusedHierPaths
       /\ applyState'.diagnostics = applyState.diagnostics \o
            <<[message |-> "is targeted by a non-local annotation", anno |-> NextAttr],
              [message |-> "Unable to apply annotation", anno |-> NextAttr]>>
       /\ worklistAttrs' = SubSeq(worklistAttrs, 1, Len(worklistAttrs) - 1)]_vars

\* A non-local annotation created the anchor of Top/a:A; then a local-only
\* annotation with the same target was rejected: still one anchor, never
\* reused, one attachment.
C13_Witness ==
  /\ annoPc = "done"
  /\ Len(processed) = 2
  /\ getNamed(processed[1], "class") = "circt.test"
  /\ getNamed(processed[1], "target") = "~Top|Top/a:A>w"
  /\ RejectsNonLocal(processed[2])
  /\ getNamed(processed[2], "target") = "~Top|Top/a:A>w"
  /\ numFailures = 1
  /\ Len(applyState.annotated) = 1
  /\ Len(applyState.hierPaths) = 1
  /\ applyState.numReusedHierPaths = 0

\* The annotation is applied to a target reached through instances: on its
\* own it gets an anchor.
AppliedNonLocally(anno) == Alone(anno).state.hierPaths # <<>>

HasAnchor(entry) == "circt.nonlocal" \in DOMAIN entry.annotation

\* The instance sites and the final module of the annotation's target.
KeyOf(anno) ==
  <<Resolved(anno["target"]).instances, Resolved(anno["target"]).ref.module>>

\* C14: anchors are deduplicated by instance sites plus final module.  With
\* the non-local applications so far taken in order, the anchors created are
\* as many as the distinct keys among them, two applications carry the same
\* anchor exactly if their keys are equal, and the reuse counter is the
\* number of non-local applications minus the number of anchors.
C14_AnchorsDeduplicated ==
  LET applied == SelectSeq(processed, AppliedNonLocally)
      entries == SelectSeq(applyState.annotated, HasAnchor)
      keys == {KeyOf(applied[i]) : i \in 1..Len(applied)}
  IN  /\ Len(entries) = Len(applied)
      /\ Len(applyState.hierPaths) = Cardinality(keys)
      /\ Cardinality(applyState.instPathToNLAMap) = Cardinality(keys)
      /\ \A j, k \in 1..Len(entries) :
           (KeyOf(applied[j]) = KeyOf(applied[k])) <=>
             (entries[j].annotation["circt.nonlocal"] =
                entries[k].annotation["circt.nonlocal"])
      /\ applyState.numReusedHierPaths = Len(applied) - Len(applyState.hierPaths)
      /\ annoPc = "done" =>
           statistics.numReusedHierPathOps = applyState.numReusedHierPaths

\* Two wires of A under Top/a and a wire of B under Top/a/b: two anchors, one
\* reuse, and the two annotations of A carry the same anchor.
C14_Witness ==
  /\ annoPc = "done"
  /\ Len(processed) = 3
  /\ getNamed(processed[1], "target") = "~Top|Top/a:A>w"
  /\ getNamed(processed[2], "target") = "~Top|Top/a:A/b:B>w"
  /\ getNamed(processed[3], "target") = "~Top|Top/a:A>v"
  /\ Len(applyState.annotated) = 3
  /\ applyState.annotated[1].annotation["circt.nonlocal"] = "nla"
  /\ applyState.annotated[2].annotation["circt.nonlocal"] = "nla_0"
  /\ applyState.annotated[3].annotation["circt.nonlocal"] = "nla"
  /\ Len(applyState.hierPaths) = 2
  /\ applyState.numReusedHierPaths = 1

\* --------------------------------------- claims: the resolver, continued
\* A module nobody instantiates that is not the root.
Unreachable(m) == m # TopLevelNode /\ noUses(instanceGraph, m)

NothingPlannedFor(i) ==
  \A m \in DOMAIN moduleModifications :
    \A k \in 1..Len(moduleModifications[m].portsToAdd) :
      moduleModifications[m].portsToAdd[k].id # i

\* C15 as stated: the cached path set of a module without uses that is not
\* the root is empty, and a problem whose source or sink lies in such a
\* module stops the resolver with an error: in no build is it grouped as if
\* it had a path, and no port is planned for it.
C15_AsStated ==
  /\ \A m \in DOMAIN absolutePathsCache :
       Unreachable(m) => absolutePathsCache[m] = <<>>
  /\ \A i \in 1..index :
       (Unreachable(wiringProblems[i].source) \/ Unreachable(wiringProblems[i].sink)) =>
         /\ pc = "crashed"
         /\ index = i
         /\ i \notin DOMAIN lcaOf
         /\ NothingPlannedFor(i)

\* Problem i has one path on each side, the sink is not in the root, and the
\* two paths share no instance site: they part at the root.
PartAtRoot(i) ==
  /\ SinglePaths(i)
  /\ ThePath(wiringProblems[i].sink) # <<>>
  /\ \/ ThePath(wiringProblems[i].source) = <<>>
     \/ ThePath(wiringProblems[i].source)[1] # ThePath(wiringProblems[i].sink)[1]

PortsOf(m, i) ==
  IF m \in DOMAIN moduleModifications
    THEN SelectSeq(moduleModifications[m].portsToAdd, LAMBDA p : p.id = i)
    ELSE <<>>

\* C16 as stated: a problem whose paths share no instance site fails the
\* pass: it is not grouped and no port is planned for it.
C16_AsStated ==
  \A i \in 1..index :
    (PartAtRoot(i) /\ BeforeRewrite) =>
      /\ pc \notin {"group", "rewrite", "done"}
      /\ i \notin DOMAIN lcaOf
      /\ NothingPlannedFor(i)

\* C16: a problem whose paths share no instance site (the sink not in the
\* root) is wired through the root.  The LCA is the root, every module on the
\* source path is planned one output port and every module on the sink path
\* one input port, the pass neither fails nor aborts, and when it is done the
\* root holds the connection that joins the two sides.
C16_WiredThroughRoot ==
  \A i \in 1..index :
    PartAtRoot(i) =>
      /\ pc \in {"group", "rewrite", "done"}
      /\ i \in DOMAIN lcaOf
      /\ lcaOf[i].lca = TopLevelNode
      /\ BeforeRewrite =>
           /\ lcaOf[i].sources = ThePath(wiringProblems[i].source)
           /\ lcaOf[i].sinks = ThePath(wiringProblems[i].sink)
           /\ \A k \in 1..Len(lcaOf[i].sources) :
                Len(PortsOf(TargetOf(instanceGraph, lcaOf[i].sources[k]), i)) >= 1
           /\ \A k \in 1..Len(lcaOf[i].sinks) :
                Len(PortsOf(TargetOf(instanceGraph, lcaOf[i].sinks[k]), i)) >= 1
           /\ PortsOf(TopLevelNode, i) = <<>>
      /\ pc = "done" =>
           \E k \in 1..Len(connects[TopLevelNode]) :
             /\ connects[TopLevelNode][k].id = i
             /\ connects[TopLevelNode][k].via = "uturn"

\* Source and sink in two modules the root instantiates side by side, the
\* pass done, the root holding the connection.
C16_Witness ==
  /\ pc = "done"
  /\ index = 1
  /\ PartAtRoot(1)
  /\ Len(ThePath(wiringProblems[1].source)) = 1
  /\ Len(ThePath(wiringProblems[1].sink)) = 1
  /\ wiringProblems[1].source # wiringProblems[1].sink
  /\ Uturns(TopLevelNode) # {}
  /\ Len(ports[wiringProblems[1].source]) =
       Len(InitialPorts(wiringProblems[1].source)) + 1
  /\ Len(ports[TopLevelNode]) = Len(InitialPorts(TopLevelNode))

\* ------------------------------------------------ claims: the whole pass
\* The design is as it was before the pass: no port added, no instance
\* replaced, no connect made, nothing planned.
Pristine ==
  /\ ports = [m \in Modules |-> PassPorts(m)]
  /\ connects = [m \in Modules |-> <<>>]
  /\ \A r \in 1..Len(instanceGraph) : instanceGraph[r].inst[2] = 0
  /\ moduleModifications = <<>>
  /\ index = 0

\* The wiring problems the annotations register, each taken on its own.
RECURSIVE RegisteredBy(_)
RegisteredBy(annos) ==
  IF annos = <<>> THEN <<>>
  ELSE Alone(Head(annos)).state.wiringProblems \o RegisteredBy(Tail(annos))

\* C17: the resolver runs once, after the worklist is empty.  While an
\* annotation, original or enqueued, is still to be processed the design is
\* untouched and the resolver has not started; once it has started the
\* worklist is empty and stays so, it works on exactly the problems the
\* processed annotations registered, in the order they were registered, it
\* groups them one by one, each once, all of them before the first module is
\* rewritten, and it never starts again.
C17_ResolverOnceAfterWorklist ==
  /\ []((annoPc \in {"start", "loop"} \/ worklistAttrs # <<>>) =>
          (Pristine /\ pc = "idle" /\ wiringProblems = <<>>))
  /\ [](pc # "idle" =>
          /\ worklistAttrs = <<>>
          /\ wiringProblems = applyState.wiringProblems
          /\ wiringProblems = RegisteredBy(processed)
          /\ index <= Len(wiringProblems)
          /\ DOMAIN lcaOf \subseteq 1..index)
  /\ [](pc \in {"rewrite", "done"} => index = Len(wiringProblems))
  /\ [][/\ index' \in {index, index + 1}
        /\ pc # "idle" =>
             /\ pc' # "idle"
             /\ wiringProblems' = wiringProblems
             /\ processed' = processed
        /\ pc \in {"rewrite", "done"} => (pc' # "group" /\ index' = index)]_vars

\* The pass is over; an original annotation and one an applier enqueued
\* each registered a problem, and the resolver added a port for both.
C17_Witness ==
  /\ annoPc = "done"
  /\ pc = "done"
  /\ numAdded = 1
  /\ Len(processed) = 3
  /\ Len(wiringProblems) = 2
  /\ index = 2
  /\ Len(ports[2]) = Len(PassPorts(2)) + 2

\* The rewrite loop has inserted the new ports of module m.
Rewritten(m) ==
  /\ m \in Range(Visited)
  /\ m \in DOMAIN moduleModifications
  /\ pc \in {"rewrite", "done"}

\* C18: the resolver only appends ports.  A module's ports from before the
\* pass stay at their indices, in their order; a rewritten module has behind
\* them exactly the ports planned for it, in the order they were planned
\* (problem after problem), and a module not rewritten has no other port.
C18_PortsOnlyAppended ==
  \A m \in Modules :
    /\ Len(ports[m]) >= Len(PassPorts(m))
    /\ SubSeq(ports[m], 1, Len(PassPorts(m))) = PassPorts(m)
    /\ LET new == SubSeq(ports[m], Len(PassPorts(m)) + 1, Len(ports[m]))
       IN  /\ new = (IF Rewritten(m) THEN moduleModifications[m].portsToAdd ELSE <<>>)
           /\ \A j, k \in 1..Len(new) : j < k => new[j].id < new[k].id
           /\ \A k \in 1..Len(new) : new[k].id \in 1..Len(wiringProblems)

\* A module with a port of its own gained two ports, for the first and for
\* the second problem, behind it.
C18_Witness ==
  /\ pc = "done"
  /\ Len(PassPorts(2)) = 1
  /\ Len(ports[2]) = 3
  /\ ports[2][1] = PassPorts(2)[1]
  /\ ports[2][2].id = 1
  /\ ports[2][3].id = 2

\* The handler that applyAnnotation picks for an annotation, NoRecord if it
\* rejects the annotation before resolving it.
RecordFor(anno) ==
  IF Classless(anno)
    THEN IF ignoreClasslessAnno THEN annotationRecords["circt.missing"] ELSE NoRecord
    ELSE getAnnotationHandler(anno["class"], ignoreUnhandledAnno)

\* What parsing a target string gives: the entity it names, or nothing.
Parsed(path) == IF tokenizePath(path).ok THEN Resolved(path) ELSE NoValue

\* What a resolver of a kind is to give for an annotation.
ResolutionOf(kind, anno) ==
  CASE kind = "noResolve" -> CircuitValue
    [] kind = "tryResolve" ->
         IF "target" \in DOMAIN anno THEN Parsed(anno["target"]) ELSE CircuitValue
    [] kind = "stdResolve" ->
         IF "target" \in DOMAIN anno THEN Parsed(anno["target"]) ELSE NoValue

Messages(state) == {state.diagnostics[k].message : k \in 1..Len(state.diagnostics)}

\* C19: what an annotation resolves to depends on the kind of its resolver
\* and on whether it has a target, and on nothing else.  Without a target,
\* noResolve and tryResolve give the circuit and stdResolve fails; with a
\* target, noResolve still gives the circuit and the other two parse the
\* target.  A failed resolution fails the annotation with nothing attached,
\* and what an applier attaches, it attaches to the resolved entity.
C19_ResolutionByKind ==
  (AppliedOne /\ RecordFor(processed[1]) # NoRecord) =>
    LET anno == processed[1]
        kind == RecordFor(anno).resolver
        value == ResolutionOf(kind, anno)
    IN  /\ resolve(RecordFor(anno), anno, EmptyState).value = value
        /\ ("Unable to resolve target of annotation" \in Messages(applyState)) = ~value.ok
        /\ ("No target field in annotation" \in Messages(applyState)) =
             (kind = "stdResolve" /\ "target" \notin DOMAIN anno)
        /\ ~value.ok => numFailures = 1 /\ applyState.annotated = <<>>
        /\ \A k \in 1..Len(applyState.annotated) :
             /\ applyState.annotated[k].ref = value.ref
             /\ ("target" \notin DOMAIN anno \/ kind = "noResolve") =>
                  applyState.annotated[k].ref.op = "CircuitOp"

\* An annotation without a target went through the best-effort resolver and
\* was attached to the circuit.
C19_Witness ==
  /\ AppliedOne
  /\ annoPc = "done"
  /\ RecordFor(processed[1]) # NoRecord
  /\ RecordFor(processed[1]).resolver = "tryResolve"
  /\ "target" \notin DOMAIN processed[1]
  /\ numFailures = 0
  /\ Len(applyState.annotated) = 1
  /\ applyState.annotated[1].ref = CircuitValue.ref

\* The annotation reaches an applier that checks the kind of its target,
\* with a target that resolves.
ReachesTypedApplier(anno) ==
  /\ RecordFor(anno) # NoRecord
  /\ RecordFor(anno).applier.fn = "applyWithoutTarget"
  /\ RecordFor(anno).applier.typed
  /\ ResolutionOf(RecordFor(anno).resolver, anno).ok

\* The applier's check on the kind of the target passes.
KindAllowed(applier, target) ==
  IF target.ref.kind = "port" THEN applier.allowPortAnnoTarget
  ELSE target.ref.op \in applier.types

\* The payload without its target, with the reference to the anchor of a
\* non-local target and the index of a field target.
AttachedPayload(anno, target) ==
  LET local == without(anno, "target")
      anchored == IF "target" \in DOMAIN anno /\ ~isLocal(target)
                    THEN local @@ ("circt.nonlocal" :> "nla") ELSE local
  IN  IF target.fieldIdx # 0
        THEN anchored @@ ("circt.fieldID" :> ToString(target.fieldIdx))
        ELSE anchored

\* C20 as stated: whenever the check passes, what is attached is the payload
\* without its target.
C20_AsStated ==
  (AppliedOne /\ ReachesTypedApplier(processed[1])) =>
    LET anno == processed[1]
        target == ResolutionOf(RecordFor(anno).resolver, anno)
    IN  IF KindAllowed(RecordFor(anno).applier, target)
          THEN /\ Len(applyState.annotated) = 1
               /\ applyState.annotated[1].annotation = without(anno, "target")
          ELSE Rejected("Unable to apply annotation")

\* C20: an applier restricted to kinds of targets fails when the target is
\* of another kind, or is a port and ports are not allowed, and then nothing
\* is attached and no anchor made.  When the check passes and the target is
\* local or the applier allows non-local targets, the target gets the payload
\* without its target field, plus the reference to the anchor if the target
\* is non-local and the field index if it is a field; when the check passes
\* but the target is non-local and the applier does not allow that, the
\* applier fails all the same and attaches nothing.
C20_KindCheckedApplier ==
  (AppliedOne /\ ReachesTypedApplier(processed[1])) =>
    LET anno == processed[1]
        applier == RecordFor(anno).applier
        target == ResolutionOf(RecordFor(anno).resolver, anno)
    IN  IF ~KindAllowed(applier, target)
          THEN /\ Rejected("Unable to apply annotation")
               /\ applyState.hierPaths = <<>>
        ELSE IF applier.allowNonLocal \/ isLocal(target)
          THEN /\ numFailures = 0
               /\ applyState.diagnostics = <<>>
               /\ Len(applyState.annotated) = 1
               /\ applyState.annotated[1].ref = target.ref
               /\ applyState.annotated[1].annotation = AttachedPayload(anno, target)
               /\ "target" \notin DOMAIN applyState.annotated[1].annotation
        ELSE /\ numFailures = 1
             /\ applyState.annotated = <<>>
             /\ applyState.hierPaths = <<>>

\* An annotation whose applier takes modules only was given a port: it
\* failed and nothing was attached.
C20_Witness ==
  /\ AppliedOne
  /\ annoPc = "done"
  /\ ReachesTypedApplier(processed[1])
  /\ processed[1]["class"] = "dutAnnoClass"
  /\ getNamed(processed[1], "target") = "~Top|Top>p"
  /\ Rejected("Unable to apply annotation")
  /\ passFailed

\* ------------------------------------------- claims: the rewrite of a module
\* The rewrite loop stands before an instance of the module it rewrites.
AtUse == pc = "rewrite" /\ cur.usesLeft # <<>>

\* The values a module's connects mention.
ValuesIn(cs) == UNION {{cs[k].dest, cs[k].src} : k \in 1..Len(cs)}

\* Result j of oldOp has become result j of newOp, any other value is as it was.
Redirected(v, oldOp, newOp) ==
  IF v[1] = "result" /\ <<v[2], v[3]>> = oldOp THEN <<"result", newOp[1], newOp[2], v[4]>>
  ELSE v

\* C21: the replacement of an instance of a module that gained k ports.  The
\* clone has the results of the old instance and k more, which are the
\* module's new ports in their order; every use of a result of the old
\* instance has become a use of the clone's result of the same index; the
\* old instance is in the graph no more; the instances are as many as before
\* and instantiate the same modules in the same places.
C21_InstanceReplacedByClone ==
  [][AtUse =>
       LET r == Head(cur.usesLeft)
           useInst == instanceGraph[r].inst
           clonedInst == instanceGraph'[r].inst
           k == Len(cur.newPorts)
           fmodule == instanceGraph[r].target
       IN  /\ fmodule = cur.module
           /\ clonedInst # useInst
           /\ useInst \notin LiveInsts(instanceGraph')
           /\ Len(instanceGraph') = Len(instanceGraph)
           /\ \A i \in 1..Len(instanceGraph) :
                /\ instanceGraph'[i].parent = instanceGraph[i].parent
                /\ instanceGraph'[i].target = instanceGraph[i].target
                /\ i # r => instanceGraph'[i].inst = instanceGraph[i].inst
           /\ numResults[r] = cur.originalNumPorts
           /\ numResults'[r] = numResults[r] + k
           /\ numResults'[r] = Len(ports[fmodule])
           /\ \A j \in 1..k : ports[fmodule][numResults[r] + j] = cur.newPorts[j]
           /\ \A i \in 1..Len(instanceGraph) : i # r => numResults'[i] = numResults[i]
           /\ \A m \in Modules :
                /\ Len(connects'[m]) = Len(connects[m])
                /\ \A c \in 1..Len(connects[m]) :
                     /\ connects'[m][c].dest =
                          Redirected(connects[m][c].dest, useInst, clonedInst)
                     /\ connects'[m][c].src =
                          Redirected(connects[m][c].src, useInst, clonedInst)
                /\ \A v \in ValuesIn(connects'[m]) :
                     ~(v[1] = "result" /\ <<v[2], v[3]>> = useInst)]_vars

\* An instance with a result in use was replaced by a clone with two more
\* results, and the use is now one of the clone's result of the same index.
C21_Witness ==
  \E r \in 1..Len(instanceGraph) :
    /\ instanceGraph[r].inst = <<r, 1>>
    /\ Len(PassPorts(instanceGraph[r].target)) = 1
    /\ numResults[r] = 3
    /\ \E c \in 1..Len(connects[instanceGraph[r].parent]) :
         /\ connects[instanceGraph[r].parent][c].via = "design"
         /\ connects[instanceGraph[r].parent][c].dest = Result(<<r, 1>>, 0)

\* moduleModifications[m] as operator[] gives it: a default entry if there
\* is none.
ModificationsOf(mm, m) == IF m \in DOMAIN mm THEN mm[m] ELSE NoModifications

\* C22: the bookkeeping for the module that holds a cloned instance.  The
\* result for the k-th new port, tagged with problem p, is the clone's result
\* of index original port count + (k - 1).  If the module has no connection
\* for p when the result is recorded, the result becomes its connection for
\* p and no U-turn is recorded for it; if it has one, from before the clone
\* or from an earlier result of the clone, the connection stays and the
\* result with p is appended to the module's uturns.  Nothing else of the
\* plan changes.
C22_ResultRecordedOneWay ==
  [][AtUse =>
       LET r == Head(cur.usesLeft)
           enclosing == instanceGraph[r].parent
           clonedInst == instanceGraph'[r].inst
           newPorts == cur.newPorts
           before == ModificationsOf(moduleModifications, enclosing)
           after == moduleModifications'[enclosing]
           value(k) == Result(clonedInst, cur.originalNumPorts + (k - 1))
           hadEntry(k) ==
             \/ newPorts[k].id \in DOMAIN before.connectionMap
             \/ \E j \in 1..(k - 1) : newPorts[j].id = newPorts[k].id
           turned == SelectSeq2([k \in 1..Len(newPorts) |-> <<value(k), newPorts[k].id>>],
                                1, [k \in 1..Len(newPorts) |-> hadEntry(k)])
       IN  /\ enclosing \in DOMAIN moduleModifications'
           /\ \A k \in 1..Len(newPorts) :
                IF hadEntry(k)
                  THEN /\ after.connectionMap[newPorts[k].id] # value(k)
                       /\ <<value(k), newPorts[k].id>> \in Range(after.uturns)
                  ELSE /\ after.connectionMap[newPorts[k].id] = value(k)
                       /\ <<value(k), newPorts[k].id>> \notin Range(after.uturns)
           /\ \A p \in DOMAIN before.connectionMap :
                after.connectionMap[p] = before.connectionMap[p]
           /\ DOMAIN after.connectionMap =
                DOMAIN before.connectionMap \cup {newPorts[k].id : k \in 1..Len(newPorts)}
           /\ after.uturns = before.uturns \o turned
           /\ after.portsToAdd = before.portsToAdd
           /\ \A m \in DOMAIN moduleModifications' \ {enclosing} :
                /\ m \in DOMAIN moduleModifications
                /\ moduleModifications'[m] = moduleModifications[m]]_vars

\* Two problems were resolved through a module that is neither at their
\* source nor at their sink: it took the two new results of the instance
\* below it as its connections, the second from the index after the first,
\* and the root, which had a connection for both, got U-turns.
C22_Witness ==
  /\ pc = "done"
  /\ Len(wiringProblems) = 2
  /\ \E r \in 1..Len(instanceGraph) :
       LET m == instanceGraph[r].parent
           n == Len(PassPorts(instanceGraph[r].target))
       IN  /\ m # TopLevelNode
           /\ m \in DOMAIN moduleModifications
           /\ moduleModifications[m].uturns = <<>>
           /\ moduleModifications[m].connectionMap[1] = Result(<<r, 1>>, n)
           /\ moduleModifications[m].connectionMap[2] = Result(<<r, 1>>, n + 1)
  /\ TopLevelNode \in DOMAIN moduleModifications
  /\ Len(moduleModifications[TopLevelNode].uturns) = 2

\* The connects of module m that wired a port up.
PortConnects(m) == {c \in 1..Len(connects[m]) : connects[m][c].via = "port"}

\* Whether a value is of a reference type in the design as it stands.
IsRef(v) == isRefValue(instanceGraph, ports, v)

\* C23: the wire-up of a new port.  Each new port of a module has one
\* connect: an output port is the destination and the module's connection
\* for the port's problem the driver, an input port is the driver and the
\* connection the destination.  The connect has a send if the destination is
\* of a reference type and the driver is not, a resolve if the driver is and
\* the destination is not, and no adaptation if they agree.
C23_PortWiredWithAdaptation ==
  \A m \in Modules :
    /\ Cardinality(PortConnects(m)) = Len(ports[m]) - Len(PassPorts(m))
    /\ \A k \in (Len(PassPorts(m)) + 1)..Len(ports[m]) :
         LET port == ports[m][k]
             arg == Argument(m, k - 1)
             value == moduleModifications[m].connectionMap[port.id]
             mine == {c \in PortConnects(m) :
                        connects[m][c].dest = arg \/ connects[m][c].src = arg}
         IN  /\ Cardinality(mine) = 1
             /\ \A c \in mine :
                  LET connect == connects[m][c]
                  IN  /\ connect.id = port.id
                      /\ port.direction = "out" =>
                           connect.dest = arg /\ connect.src = value
                      /\ port.direction = "in" =>
                           connect.dest = value /\ connect.src = arg
                      /\ (connect.cast = "send") =
                           (IsRef(connect.dest) /\ ~IsRef(connect.src))
                      /\ (connect.cast = "resolve") =
                           (~IsRef(connect.dest) /\ IsRef(connect.src))
                      /\ (connect.cast = "none") =
                           (IsRef(connect.dest) = IsRef(connect.src))

\* A problem of reference type went from a source under one instance of the
\* root to a sink two instances below another: a send at the source, a
\* resolve at the sink, no adaptation in the module in between.
C23_Witness ==
  /\ pc = "done"
  /\ \E a, b, c \in Modules :
       /\ a # b /\ b # c /\ a # c
       /\ \E k \in PortConnects(a) :
            /\ connects[a][k].cast = "send"
            /\ connects[a][k].src = SourceValue(1)
       /\ \E k \in PortConnects(b) :
            /\ connects[b][k].cast = "resolve"
            /\ connects[b][k].dest = SinkValue(1)
       /\ \E k \in PortConnects(c) :
            /\ connects[c][k].cast = "none"
            /\ connects[c][k].dest[1] = "result"
            /\ connects[c][k].src[1] = "arg"

\* ------------------------------------------- claims: the worklist, continued
\* The annotations the applier of an annotation enqueues.
Enqueues(anno) ==
  IF getNamed(anno, "class") = "viewAnnoClass" THEN synthesized(anno) ELSE <<>>

\* An annotation followed by what it enqueues, the last enqueued first, each
\* followed in turn by what it enqueues; and the same for a list.
RECURSIVE Expanded(_), ExpandedList(_)
Expanded(anno) == <<anno>> \o ExpandedList(Reverse(Enqueues(anno)))

ExpandedList(annos) ==
  IF annos = <<>> THEN <<>> ELSE Expanded(Head(annos)) \o ExpandedList(Tail(annos))

IsPrefix(s, t) == Len(s) <= Len(t) /\ SubSeq(t, 1, Len(s)) = s

\* C24: the worklist loop terminates.  It ends with an empty worklist; what
\* it has processed then is every annotation of the input, each followed at
\* once by the annotations it enqueued (and those by theirs), so an enqueued
\* annotation comes before every input annotation not yet processed and each
\* annotation is processed once; the annotations counted in all are the raw
\* ones plus the enqueued ones.
C24_WorklistDrains ==
  /\ <>(annoPc = "done")
  /\ [](annoPc \in {"loop", "done"} =>
          /\ IsPrefix(processed, ExpandedList(annotations))
          /\ Len(processed) + Len(worklistAttrs) = Len(annotations) + numAdded)
  /\ [](annoPc = "done" =>
          /\ worklistAttrs = <<>>
          /\ processed = ExpandedList(annotations)
          /\ Len(processed) = Len(annotations) + numAdded
          /\ statistics.numAnnos = Len(annotations) + numAdded
          /\ statistics.numRawAnnotations = Len(annotations)
          /\ statistics.numAddedAnnos = numAdded)

\* The loop ended after an annotation that enqueued two, the first of which
\* enqueued two more, and an input annotation after it: six in all, the input
\* annotation last.
C24_Witness ==
  /\ annoPc = "done"
  /\ Len(annotations) = 2
  /\ getNamed(annotations[1], "children") = "nested"
  /\ getNamed(annotations[2], "class") = "circt.test"
  /\ numAdded = 4
  /\ Len(processed) = 6
  /\ processed[1] = annotations[1]
  /\ processed[6] = annotations[2]
  /\ statistics.numAnnos = 6
  /\ worklistAttrs = <<>>

\* ------------------------------------------------- claims: the connections
\* A value that produces the tapped signal in its module: the source itself,
\* or an instance result for an output port.
Produces(v) ==
  \/ v[1] = "source"
  \/ /\ v[1] = "result"
     /\ ports[instanceGraph[v[2]].target][v[4] + 1].direction = "out"

\* A value that consumes it: the sink itself, or an instance result for an
\* input port.
Consumes(v) ==
  \/ v[1] = "sink"
  \/ /\ v[1] = "result"
     /\ ports[instanceGraph[v[2]].target][v[4] + 1].direction = "in"

\* C25 as stated: every U-turn connect drives a consumer from a producer.
\* It is stated for the builds that keep assertions, where the resolver has
\* made no undefined read when it comes to connect.
C25_AsStated ==
  assertsEnabled =>
  \A m \in Modules :
    \A k \in Uturns(m) :
      /\ Consumes(connects[m][k].dest)
      /\ Produces(connects[m][k].src)

\* The module the rewrite loop takes next, 0 if it stands elsewhere.
NextModule ==
  IF pc = "rewrite" /\ cur.usesLeft = <<>> /\ pos < Len(order) THEN order[pos + 1] ELSE 0

AllSinglePaths == \A i \in 1..Len(wiringProblems) : SinglePaths(i)

\* The value was put into module m's connectionMap by the grouping phase.
PrePopulated(m, id, v) ==
  \/ v = SourceValue(id) /\ wiringProblems[id].source = m
  \/ v = SinkValue(id) /\ wiringProblems[id].sink = m

\* The value is a result of the clone that replaced an instance in module m.
FromClone(m, v) ==
  /\ v[1] = "result"
  /\ v[2] \in 1..Len(instanceGraph)
  /\ instanceGraph[v[2]].parent = m
  /\ instanceGraph[v[2]].inst = <<v[2], v[3]>>
  /\ v[3] > 0
  /\ instanceGraph[v[2]].target \in Range(Visited)

\* C26: when every problem's source and sink module have exactly one path,
\* the module the rewrite loop takes next has, for the problem of each port
\* planned for it, a value in its connectionMap: the problem's source or
\* sink, put there by the grouping phase, or a result of the clone of an
\* instance of a module rewritten before.  So the wire-up never finds a null
\* value, and the resolver stops, if at all, in the grouping phase.
C26_ValueBeforeWireUp ==
  AllSinglePaths =>
    /\ pc \in {"crashed", "corrupt"} => order = <<>>
    /\ NextModule \in DOMAIN moduleModifications =>
         LET mods == moduleModifications[NextModule]
         IN  \A k \in 1..Len(mods.portsToAdd) :
               LET id == mods.portsToAdd[k].id
               IN  /\ id \in DOMAIN mods.connectionMap
                   /\ \/ PrePopulated(NextModule, id, mods.connectionMap[id])
                      \/ FromClone(NextModule, mods.connectionMap[id])

\* The rewrite loop is about to take a module with ports planned for two
\* problems, which is neither at their source nor at their sink: its values
\* for them are results of the clone of an instance below it.
C26_Witness ==
  /\ AllSinglePaths
  /\ Len(wiringProblems) = 2
  /\ NextModule \in DOMAIN moduleModifications
  /\ Len(moduleModifications[NextModule].portsToAdd) = 2
  /\ \A id \in 1..2 :
       /\ id \in DOMAIN moduleModifications[NextModule].connectionMap
       /\ FromClone(NextModule, moduleModifications[NextModule].connectionMap[id])

\* The reference-ness of what a connect drives its destination with: that
\* of its driver, turned by the adaptation if there is one.
DriverIsRef(connect) ==
  CASE connect.cast = "send" -> TRUE
    [] connect.cast = "resolve" -> FALSE
    [] OTHER -> IsRef(connect.src)

\* The connects the resolver made in module m.
Made(m) == {k \in 1..Len(connects[m]) : connects[m][k].via \in {"port", "uturn"}}

\* C27 as stated: every connect the resolver has made joins a destination
\* and a driver of equal reference-ness.  It is stated for the builds that
\* keep assertions, where the resolver has made no undefined read when it
\* comes to connect.
C27_AsStated ==
  assertsEnabled =>
    \A m \in Modules :
      \A k \in Made(m) :
        IsRef(connects[m][k].dest) = DriverIsRef(connects[m][k])

\* ---------------------------------------------- claims: allUnder, continued
\* C28: allUnder terminates.  No module is pushed onto its worklist twice,
\* top is never pushed and so never popped (assert(node != top) holds), what
\* is on the worklist was pushed and was seen, and for the empty list of
\* records the answer is true.
C28_AllUnderTerminates ==
  /\ <>(auPc = "done")
  /\ [](auPc # "assert")
  /\ [](/\ \A j, k \in 1..Len(auPushed) : j # k => auPushed[j] # auPushed[k]
        /\ auTop \notin Range(auPushed)
        /\ Range(auWorklist) \subseteq Range(auPushed)
        /\ auPc \in {"loop", "done"} => auSeen = Range(auPushed) \cup {auTop})
  /\ []((auPc = "done" /\ auNodes = <<>>) => (auResult = "true" /\ auPushed = <<>>))

\* allUnder returned after walking up from a module that the root, which is
\* top, instantiates twice: the module was pushed once and top not at all.
C28_Witness ==
  /\ auPc = "done"
  /\ auTop = TopLevelNode
  /\ auResult = "true"
  /\ Len(auNodes) = 2
  /\ \E m \in Modules \ {TopLevelNode} :
       /\ auPushed = <<m>>
       /\ Len(uses(instanceGraph, m)) = 2
       /\ \A k \in 1..2 : instanceGraph[auNodes[k]].parent = m

====
